---- MODULE Spec2Model ----
(***************************************************************************)
(* Autopilot-LoRA-Loader: the content-addressed LoRA catalog               *)
(* (utils/lora_catalog.py), the HTTP endpoints that edit and enrich it     *)
(* (server.py), the startup population (startup.py) and the two node       *)
(* passes that scan and index (nodes/lora_manager.py,                      *)
(* nodes/smart_power_lora_loader.py).                                      *)
(*                                                                         *)
(* Weights are counted in hundredths (1.0 is 100).  A catalog is the       *)
(* Python dict in insertion order: a sequence of entries, each carrying    *)
(* its dict key in the field "key" (the entry's own 'file_hash' field is   *)
(* always written equal to that key, so the two are one field here).       *)
(* A key absent from a Python entry and read with .get(k, default) is the  *)
(* default here.                                                           *)
(***************************************************************************)
EXTENDS Integers, Sequences, FiniteSets, TLC

VARIABLES
    disk,      \* the LoRA folder: path index -> content of the file there, 0 = no file
    catalog,   \* lora_catalog.catalog, the in-memory dict of the process
    stored,    \* data/lora_index.json, the persisted catalog
    cache,     \* registry response cache: content -> "none" | "not_found" | "data"
    pass,      \* the enrichment pass in progress and its position
    last,      \* what the last operation did (its name, its inputs, what it called)
    io,        \* the catalog file during a save, and what a concurrent load returned
    sel,       \* the inputs and the result of the last selection function applied
    call,      \* a provider call in progress: its attempts, requests and delays
    reg,       \* the registry: its response cache by digest, and a lookup in progress
    idx,       \* the inputs and the outcome of the last LLM indexing function applied
    vis,       \* one GeminiProvider instance: its vision cache and the lookups it made
    run        \* the inputs and the outcome of the last prompting or applying function

vars == <<disk, catalog, stored, cache, pass, last, io, sel, call, reg, idx, vis, run>>

\* The variables of the catalog and of the handlers, and the other ones.
handlers == <<disk, catalog, stored, cache, pass, last>>
others == <<io, sel, call, reg, idx, vis, run>>

\* All the variables but one of the others.
notIo == <<handlers, sel, call, reg, idx, vis, run>>
notSel == <<handlers, io, call, reg, idx, vis, run>>
notCall == <<handlers, io, sel, reg, idx, vis, run>>
notReg == <<handlers, io, sel, call, idx, vis, run>>
notIdx == <<handlers, io, sel, call, reg, vis, run>>
notVis == <<handlers, io, sel, call, reg, idx, run>>
notRun == <<handlers, io, sel, call, reg, idx, vis>>

-----------------------------------------------------------------------------
(* Bounds *)

MaxContent == 1
MaxPath == 2

Contents == 1..MaxContent
PathIds == 1..MaxPath

-----------------------------------------------------------------------------
(* The files: names, paths, bytes, and what the black-box readers return.  *)

FileNames == <<"x.safetensors", "y.safetensors", "z.safetensors", "w.safetensors">>
HexDigests == <<"aa", "bb", "cc", "dd">>

FileName(p) == FileNames[p]
FullPath(p) == "loras/" \o FileNames[p]
PathNames == {FileName(p) : p \in PathIds}

\* compute_file_hash: the digest is a function of the bytes alone, injective
\* on the contents of the model, rendered with the scheme prefix.
compute_file_hash(c) == "sha256:" \o HexDigests[c]

ContentIds == {compute_file_hash(c) : c \in Contents}

\* parse_safetensors_file on a file with bytes c.  Content 1 carries
\* metadata (trigger words, a base model name, ss_network_alpha = 16),
\* content 3 carries trigger words and a weight 0.5, any other carries none.
NoWeight == 0
parse_safetensors_file(c) ==
    CASE c = 1 -> [metadata |-> TRUE, trained_words |-> <<"alpha">>,
                   base_model |-> "sd 1.5", recommended_weight |-> 1600]
      [] c = 3 -> [metadata |-> TRUE, trained_words |-> <<"beta", "gamma">>,
                   base_model |-> "", recommended_weight |-> 50]
      [] OTHER -> [metadata |-> FALSE, trained_words |-> <<>>,
                   base_model |-> "", recommended_weight |-> NoWeight]

\* What extract_civitai_metadata reads in the payload the registry answers
\* for a content.
extract_civitai_metadata(c) ==
    CASE c = 1 -> [trained_words |-> <<"alpha">>, tags |-> <<"Style">>,
                   base_model |-> "SDXL 1.0"]
      [] c = 3 -> [trained_words |-> <<"alpha", "beta">>, tags |-> <<>>,
                   base_model |-> ""]
      [] c = 4 -> [trained_words |-> <<"beta", "beta">>, tags |-> <<>>,
                   base_model |-> ""]
      [] OTHER -> [trained_words |-> <<>>, tags |-> <<>>, base_model |-> ""]
build_civitai_summary_text(c) == "text:" \o HexDigests[c]

\* BaseModelMapper.normalize_to_model on the names the model uses.
normalize_to_model(name) ==
    CASE name = "sd 1.5" -> "SD 1.5"
      [] name = "SDXL 1.0" -> "SDXL 1.0"
      [] OTHER -> "Other"

-----------------------------------------------------------------------------
(* Sequences as Python lists *)

Range(s) == {s[i] : i \in DOMAIN s}
NoDup(s) == \A i, j \in DOMAIN s : s[i] = s[j] => i = j

RECURSIVE Unique(_)
\* "Remove duplicates while preserving order": the first occurrence stays.
Unique(s) ==
    IF s = <<>> THEN <<>>
    ELSE LET r == Unique(SubSeq(s, 1, Len(s) - 1))
         IN IF s[Len(s)] \in Range(r) THEN r ELSE Append(r, s[Len(s)])

RECURSIVE NotIn(_, _)
\* [w for w in s if w not in S]
NotIn(s, S) ==
    IF s = <<>> THEN <<>>
    ELSE IF s[1] \in S THEN NotIn(Tail(s), S) ELSE <<s[1]>> \o NotIn(Tail(s), S)

\* Every order list(set(...)) can give for the set S.
Orders(S) == {o \in [1..Cardinality(S) -> S] : \A i, j \in DOMAIN o : o[i] = o[j] => i = j}

-----------------------------------------------------------------------------
(* Catalogs: dicts in insertion order *)

Keys(cat) == {cat[i].key : i \in DOMAIN cat}
IndexOf(cat, k) == CHOOSE i \in DOMAIN cat : cat[i].key = k
Get(cat, k) == cat[IndexOf(cat, k)]
\* cat[k] = e: an existing key keeps its place, a new key goes last.
Put(cat, k, e) == IF k \in Keys(cat) THEN [cat EXCEPT ![IndexOf(cat, k)] = e] ELSE Append(cat, e)

MinWeight == 20
MaxWeight == 200
DefaultWeight == 100
NoStrength == -1

\* max(0.2, x): the lower limit alone.
ClampBelow(x) == IF x < MinWeight THEN MinWeight ELSE x

\* max(0.2, min(2.0, x))
Clamp(x) == IF x < MinWeight THEN MinWeight ELSE IF x > MaxWeight THEN MaxWeight ELSE x

-----------------------------------------------------------------------------
(* utils/civitai_utils.py: the cached by-hash lookup *)

\* fetch_civitai_by_hash for content c.  net is what the network does if it is
\* asked: "answer" (200 with the payload), "not_found" (404) or "transient"
\* (a request error, or 429 on every attempt).  A cached payload or a cached
\* not_found marker is returned without a request.
fetch_civitai_by_hash(cch, c, net) ==
    IF cch[c] # "none"
        THEN [cache |-> cch, data |-> cch[c], requested |-> FALSE]
    ELSE IF net = "transient"
        THEN [cache |-> cch, data |-> "none", requested |-> TRUE]
    ELSE IF net = "not_found"
        THEN [cache |-> [cch EXCEPT ![c] = "not_found"], data |-> "none", requested |-> TRUE]
    ELSE [cache |-> [cch EXCEPT ![c] = "data"], data |-> "data", requested |-> TRUE]

NetOutcomes == {"answer", "not_found", "transient"}

-----------------------------------------------------------------------------
(* utils/lora_catalog.py: class LoRACatalog *)

\* The registry half with the embedded words put before the registry's.
MergeCivitaiEmbeddedFirst(e, c, data) ==
    IF data = "data"
    THEN LET meta == extract_civitai_metadata(c)
         IN [e EXCEPT !.trained_words = Unique(e.trained_words \o meta.trained_words),
                      !.civitai_text = build_civitai_summary_text(c)]
    ELSE e

\* The registry half of a new entry (index_lora_basic, "Fetch Civitai data"):
\* e is the entry after the safetensors half, data the lookup's result.
MergeCivitai(e, c, data) ==
    IF data = "data"
    THEN LET meta == extract_civitai_metadata(c)
             base == normalize_to_model(meta.base_model)
         IN [e EXCEPT
               !.trained_words = IF meta.trained_words # <<>>
                                 THEN Unique(meta.trained_words \o e.trained_words)
                                 ELSE e.trained_words,
               !.tags = IF meta.tags # <<>> THEN meta.tags ELSE e.tags,
               !.base_compat = IF meta.base_model # "" /\ base # "Other"
                               THEN <<base>> ELSE e.base_compat,
               !.civitai_text = build_civitai_summary_text(c)]
    ELSE e

\* The safetensors half of a new entry (index_lora_basic, "Extract safetensors
\* metadata"): a falsy value (no words, no name, weight 0) is not merged.
MergeSafetensors(e, c) ==
    LET st == parse_safetensors_file(c)
        base == normalize_to_model(st.base_model)
    IN IF st.metadata
       THEN [e EXCEPT
              !.trained_words = e.trained_words \o st.trained_words,
              !.base_compat = IF st.base_model # "" /\ base # "Other"
                              THEN <<base>> ELSE e.base_compat,
              !.default_weight = IF st.recommended_weight # NoWeight
                                 THEN st.recommended_weight ELSE e.default_weight]
       ELSE e

\* The entry index_lora_basic initializes for the file at path p with hash h.
InitialEntry(p, h) ==
    [key |-> h, file |-> FileName(p), full_path |-> FullPath(p), sha256 |-> h,
     available |-> TRUE, enabled |-> TRUE, summary |-> "",
     trained_words |-> <<>>, tags |-> <<>>, base_compat |-> <<"Other">>,
     default_weight |-> DefaultWeight, civitai_text |-> "",
     indexed_by_llm |-> FALSE, indexing_attempted |-> FALSE]

\* index_lora_basic without the "already in catalog" return: the entry is
\* built and added again.
index_lora_basic_again(cat, cch, p, c, net) ==
    LET h == compute_file_hash(c)
        got == fetch_civitai_by_hash(cch, c, net)
        e == MergeCivitai(MergeSafetensors(InitialEntry(p, h), c), c, got.data)
    IN [catalog |-> Append(cat, e), cache |-> got.cache, hash |-> h,
        created |-> TRUE, requested |-> got.requested]

\* index_lora_basic(file_path) on the file at p holding bytes c (c # 0: the
\* file can be read).  Gives the catalog, the registry cache, the hash
\* returned and whether the registry was asked.
index_lora_basic(cat, cch, p, c, net) ==
    LET h == compute_file_hash(c) IN
    IF h \in Keys(cat)
    THEN [catalog |-> Put(cat, h, [Get(cat, h) EXCEPT !.available = TRUE,
                                                      !.full_path = FullPath(p)]),
          cache |-> cch, hash |-> h, created |-> FALSE, requested |-> FALSE]
    ELSE LET got == fetch_civitai_by_hash(cch, c, net)
             e == MergeCivitai(MergeSafetensors(InitialEntry(p, h), c), c, got.data)
         IN [catalog |-> Put(cat, h, e), cache |-> got.cache, hash |-> h,
             created |-> TRUE, requested |-> got.requested]

\* mark_llm_indexed leaving indexing_attempted as it was.
mark_llm_indexed_unattempted(cat, h, summary, trained_words, tags, base_compat, recommended_strength, order) ==
    IF h \notin Keys(cat) THEN cat
    ELSE Put(cat, h, [Get(cat, h) EXCEPT !.summary = summary, !.indexed_by_llm = TRUE])

\* mark_llm_indexed storing the base_compat argument whatever it is.
mark_llm_indexed_replacing(cat, h, summary, trained_words, tags, base_compat, recommended_strength, order) ==
    IF h \notin Keys(cat) THEN cat
    ELSE Put(cat, h, [Get(cat, h) EXCEPT !.summary = summary, !.indexed_by_llm = TRUE,
                                         !.indexing_attempted = TRUE,
                                         !.base_compat = base_compat])

\* mark_llm_indexed.  order is the order list(set(existing words)) gives,
\* which Python leaves open: any order of the stored words.
mark_llm_indexed(cat, h, summary, trained_words, tags, base_compat, recommended_strength, order) ==
    IF h \notin Keys(cat) THEN cat
    ELSE LET e == Get(cat, h)
             existing_words == Range(e.trained_words)
         IN Put(cat, h,
              [e EXCEPT
                 !.summary = summary,
                 !.indexed_by_llm = TRUE,
                 !.indexing_attempted = TRUE,
                 !.trained_words = order \o NotIn(trained_words, existing_words),
                 !.tags = tags,
                 !.base_compat = IF base_compat # <<>> /\ base_compat # <<"Other">>
                                 THEN base_compat ELSE e.base_compat,
                 !.default_weight = IF recommended_strength # NoStrength
                                    THEN Clamp(recommended_strength)
                                    ELSE e.default_weight])

\* The orders list(set(...)) may give for the words stored under h.
WordOrders(cat, h) ==
    IF h \in Keys(cat) THEN Orders(Range(Get(cat, h).trained_words)) ELSE {<<>>}

\* mark_indexing_attempted
mark_indexing_attempted(cat, h) ==
    IF h \notin Keys(cat) THEN cat
    ELSE Put(cat, h, [Get(cat, h) EXCEPT !.indexing_attempted = TRUE])

\* scan_lora_files: the paths that hold a file, in directory order.
scan_lora_files(dsk) == {p \in PathIds : dsk[p] # 0}
current_hashes(dsk) == {compute_file_hash(dsk[p]) : p \in scan_lora_files(dsk)}

RECURSIVE SeqOfPaths(_)
\* A set of paths as the list the directory walk gives (ascending).
SeqOfPaths(S) ==
    IF S = {} THEN <<>>
    ELSE LET m == CHOOSE x \in S : \A y \in S : x <= y
         IN <<m>> \o SeqOfPaths(S \ {m})

\* detect_new_loras deleting the entries of missing files.
detect_new_catalog_dropping(cat, dsk) ==
    SelectSeq(cat, LAMBDA e : e.key \in current_hashes(dsk))

\* detect_new_loras: the new files, and the catalog with availability set
\* from the hashes found on disk.
detect_new_files(cat, dsk) ==
    SeqOfPaths({p \in scan_lora_files(dsk) : compute_file_hash(dsk[p]) \notin Keys(cat)})
detect_new_catalog(cat, dsk) ==
    [i \in DOMAIN cat |->
        [cat[i] EXCEPT !.available = (cat[i].key \in current_hashes(dsk))]]

\* load_catalog / save_catalog: the JSON document keeps the dict's order.
load_catalog(doc) == doc
save_catalog(cat) == cat

-----------------------------------------------------------------------------
(* What an operation leaves in "last" *)

NoLast ==
    [op |-> "none", by |-> "none", path |-> 0, key |-> "", edit |-> "", again |-> FALSE,
     net |-> "none", llm |-> FALSE, ok |-> FALSE, sub_attempted |-> FALSE,
     sub_enabled |-> FALSE, keys |-> {}, compat |-> <<>>]

Idle == [kind |-> "none", todo |-> <<>>, api_key |-> FALSE, null_new |-> {}]

-----------------------------------------------------------------------------
(* The catalog file as the operating system holds it: a text that json.dump
   writes piece by piece after open(path, 'w') has emptied the file, and that
   json.load parses as a whole. *)

DocKeys == {"sha256:" \o HexDigests[1], "sha256:" \o HexDigests[2]}
DocSummaries == {"", "s1"}
DocEntries == [key : DocKeys, summary : DocSummaries]
MaxDoc == 2

\* The catalogs a save can write: dicts, so no key twice.
Docs ==
    {<<>>} \cup {<<e>> : e \in DocEntries}
           \cup {<<e, f>> : <<e, f>> \in {x \in DocEntries \X DocEntries : x[1].key # x[2].key}}

\* json.dump: the opening brace, one piece per entry, the closing brace.
json_dump(doc) ==
    <<[t |-> "{", key |-> "", summary |-> ""]>>
    \o [i \in DOMAIN doc |-> [t |-> "entry", key |-> doc[i].key, summary |-> doc[i].summary]]
    \o <<[t |-> "}", key |-> "", summary |-> ""]>>

\* json.load: a text is a document only when it is complete; anything else
\* raises.
json_load(text) ==
    IF /\ Len(text) >= 2
       /\ text[1].t = "{"
       /\ text[Len(text)].t = "}"
       /\ \A i \in 2..(Len(text) - 1) : text[i].t = "entry"
    THEN [ok |-> TRUE,
          doc |-> [i \in 1..(Len(text) - 2) |->
                     [key |-> text[i + 1].key, summary |-> text[i + 1].summary]]]
    ELSE [ok |-> FALSE, doc |-> <<>>]

\* load_catalog on the file: the parsed document, or the empty catalog when
\* the parse raises.
load_catalog_file(text) ==
    IF json_load(text).ok THEN json_load(text).doc ELSE <<>>

NoIo == [text |-> json_dump(<<>>), open |-> FALSE, todo |-> <<>>,
         before |-> <<>>, after |-> <<>>,
         op |-> "none", loaded |-> <<>>, during |-> FALSE,
         failed |-> FALSE, held |-> <<>>]
NoSel == [op |-> "none", pool |-> <<>>, target |-> "", allowlist |-> <<>>,
          context |-> <<>>, names |-> <<>>, manual |-> <<>>, auto |-> <<>>,
          cands |-> <<>>, result |-> <<>>, raised |-> FALSE]
NoResult == [success |-> FALSE, text |-> "", error |-> ""]
NoCall == [op |-> "none", provider |-> "", max_retries |-> 0, attempt |-> 0,
           active |-> FALSE, answers |-> << >>, requests |-> 0, sleeps |-> << >>,
           returned |-> 0, result |-> NoResult]

\* The digests the registry is asked about.
RegDigests == {HexDigests[1], HexDigests[2]}

\* The identifiers a lookup is given: with the scheme prefix or without.
RegIds == RegDigests \cup {"sha256:" \o h : h \in RegDigests}

\* cache: the cache files by name, each absent ("none"), the not_found
\* marker, or data.
NoReg == [cache |-> [f \in RegIds |-> "none"], got404 |-> {},
          op |-> "none", id |-> "", active |-> FALSE, stage |-> "",
          attempt |-> 0, requests |-> 0, sleeps |-> << >>, answers |-> << >>,
          result |-> "none"]
\* JSON values as json.loads gives them: a string, a number (in hundredths),
\* a list of strings and numbers, null, or no value under the key.
JStr(s) == [t |-> "str", s |-> s, n |-> 0, l |-> <<>>]
JNum(n) == [t |-> "num", s |-> "", n |-> n, l |-> <<>>]
JList(l) == [t |-> "list", s |-> "", n |-> 0, l |-> l]
JNull == [t |-> "null", s |-> "", n |-> 0, l |-> <<>>]
JAbsent == [t |-> "absent", s |-> "", n |-> 0, l |-> <<>>]
\* The elements of a list: strings, and a number.
El(s) == [t |-> "str", s |-> s]
ElNum == [t |-> "num", s |-> ""]

\* An LLM response text by what json.loads makes of it, and the result of
\* parsing it: None, or the cleaned dict.
NoResponse == [kind |-> "none", summary |-> JAbsent, trainedWords |-> JAbsent,
               tags |-> JAbsent, recommendedStrength |-> JAbsent]
NoParsed == [ok |-> FALSE, raised |-> FALSE, summary |-> "", trainedWords |-> <<>>,
             tags |-> <<>>, recommendedStrength |-> 0]

\* The indexing functions applied to drawn inputs: what was drawn and what
\* the function gave.
NoIdx == [op |-> "none", content |-> 0, cached |-> "none", net |-> "none",
          entries |-> <<>>, provider |-> "", heuristic |-> FALSE, listed |-> FALSE,
          images |-> <<>>, download_ok |-> FALSE, answer |-> "", requests |-> <<>>,
          success |-> FALSE, error |-> "", text |-> "", known |-> <<>>,
          family |-> "", llm_calls |-> 0, before |-> <<>>, strength |-> 0,
          response |-> NoResponse, parsed |-> NoParsed]

\* The model names supports_vision is asked about, and their cache keys
\* (model.lower()).
VisionModels == {"gemini-1.5-flash", "gemini-pro", "Gemini-Pro", "gemini-embedding-001"}
VisionKeys == {"gemini-1.5-flash", "gemini-pro", "gemini-embedding-001"}

\* A new provider instance: an empty _vision_cache, no call made.
NoVis == [cache |-> [k \in VisionKeys |-> "none"],
          lookups |-> [m \in VisionModels |-> 0],
          first |-> [m \in VisionModels |-> "none"],
          op |-> "none", model |-> "", result |-> "none", calls |-> 0]

\* A selection response text by what json.loads makes of it.
NoSelection == [kind |-> "none", prompt |-> JAbsent, selected_loras |-> JAbsent]

\* No prompting or applying function applied yet.
NoRun == [op |-> "none", response |-> NoSelection, ok |-> FALSE, raised |-> FALSE,
          names |-> <<>>, loras |-> <<>>, failing |-> {}, attempts |-> <<>>,
          model |-> <<>>, clip |-> <<>>]

InitHandlers ==
    /\ disk = [p \in PathIds |-> 0]
    /\ catalog = <<>>
    /\ stored = <<>>
    /\ cache = [c \in Contents |-> "none"]
    /\ pass = Idle
    /\ last = NoLast

Init ==
    /\ InitHandlers
    /\ io = NoIo
    /\ sel = NoSel
    /\ call = NoCall
    /\ reg = NoReg
    /\ idx = NoIdx
    /\ vis = NoVis
    /\ run = NoRun

-----------------------------------------------------------------------------
(* The LoRA folder changes under the program *)

\* A file is created at p, or the file there is replaced, with bytes c.
FsWrite(p, c) ==
    /\ disk[p] # c
    /\ disk' = [disk EXCEPT ![p] = c]
    /\ last' = NoLast
    /\ UNCHANGED <<catalog, stored, cache, pass, others>>

\* The file at p is removed.
FsRemove(p) ==
    /\ disk[p] # 0
    /\ disk' = [disk EXCEPT ![p] = 0]
    /\ last' = NoLast
    /\ UNCHANGED <<catalog, stored, cache, pass, others>>

-----------------------------------------------------------------------------
(* The methods of LoRACatalog, called one at a time in any order *)

\* What a caller passes to mark_llm_indexed.
Summaries == {"s1"}
WordLists == {<<"gamma", "gamma">>}
TagLists == {<<"t1">>}
\* The base_compat arguments: none, the classifier's no-match result, a family.
CompatLists == {<<>>, <<"Other">>, <<"SDXL 1.0">>}
Strengths == {500}

CallDetectNew ==
    /\ pass.kind = "none"
    /\ catalog' = detect_new_catalog(catalog, disk)
    /\ last' = [NoLast EXCEPT
                  !.op = "detect_new_loras",
                  !.keys = {catalog[i].key : i \in {j \in DOMAIN catalog :
                              ~catalog[j].available /\ catalog'[j].available}}]
    /\ UNCHANGED <<disk, stored, cache, pass, others>>

CallIndexBasic(p, net) ==
    /\ pass.kind = "none"
    /\ disk[p] # 0
    /\ LET r == index_lora_basic(catalog, cache, p, disk[p], net)
       IN /\ catalog' = r.catalog
          /\ cache' = r.cache
          /\ last' = [NoLast EXCEPT
                        !.op = "index_lora_basic", !.path = p, !.key = r.hash,
                        !.again = (last.op = "index_lora_basic" /\ last.path = p)]
    /\ UNCHANGED <<disk, stored, pass, others>>

CallMarkLLMIndexed(h, summary, words, tags, compat, strength, order) ==
    /\ pass.kind = "none"
    /\ catalog' = mark_llm_indexed(catalog, h, summary, words, tags, compat, strength, order)
    /\ last' = [NoLast EXCEPT !.op = "mark_llm_indexed", !.key = h, !.compat = compat]
    /\ UNCHANGED <<disk, stored, cache, pass, others>>

CallMarkAttempted(h) ==
    /\ pass.kind = "none"
    /\ catalog' = mark_indexing_attempted(catalog, h)
    /\ last' = NoLast
    /\ UNCHANGED <<disk, stored, cache, pass, others>>

CallSave ==
    /\ pass.kind = "none"
    /\ stored' = save_catalog(catalog)
    /\ last' = NoLast
    /\ UNCHANGED <<disk, catalog, cache, pass, others>>

CallLoad ==
    /\ pass.kind = "none"
    /\ catalog' = load_catalog(stored)
    /\ last' = NoLast
    /\ UNCHANGED <<disk, stored, cache, pass, others>>

NextCatalog ==
    \/ \E p \in PathIds, c \in Contents : FsWrite(p, c)
    \/ \E p \in PathIds : FsRemove(p)
    \/ CallDetectNew
    \/ \E p \in PathIds, net \in NetOutcomes : CallIndexBasic(p, net)
    \/ \E h \in ContentIds, s \in Summaries, w \in WordLists, t \in TagLists,
          b \in CompatLists, r \in Strengths :
          \E o \in WordOrders(catalog, h) : CallMarkLLMIndexed(h, s, w, t, b, r, o)
    \/ \E h \in ContentIds : CallMarkAttempted(h)
    \/ CallSave
    \/ CallLoad

SpecCatalog == Init /\ [][NextCatalog]_vars

-----------------------------------------------------------------------------
(* startup.py: startup_check, run when the process starts *)

\* The entry startup_check adds for a file that is not in the catalog: no
\* 'indexing_attempted' key, no registry lookup, no safetensors read.
StartupEntry(p, h) ==
    [key |-> h, file |-> FileName(p), full_path |-> FullPath(p), sha256 |-> h,
     available |-> TRUE, enabled |-> TRUE, summary |-> "",
     trained_words |-> <<>>, tags |-> <<>>, base_compat |-> <<"Unknown">>,
     default_weight |-> DefaultWeight, civitai_text |-> "",
     indexed_by_llm |-> FALSE, indexing_attempted |-> FALSE]

RECURSIVE StartupPopulate(_, _, _)
\* The loop of startup_check over the files of the folder, in order.
StartupPopulate(cat, dsk, files) ==
    IF files = <<>> THEN cat
    ELSE LET p == Head(files)
             h == compute_file_hash(dsk[p])
             next == IF h \notin Keys(cat)
                     THEN Put(cat, h, StartupEntry(p, h))
                     ELSE Put(cat, h, [Get(cat, h) EXCEPT !.available = TRUE])
         IN StartupPopulate(next, dsk, Tail(files))

\* The process starts: LoRACatalog() loads the document, startup_check
\* populates the catalog and saves it if it added an entry.
Startup ==
    /\ pass.kind = "none"
    /\ LET loaded == load_catalog(stored)
           populated == StartupPopulate(loaded, disk, SeqOfPaths(scan_lora_files(disk)))
       IN /\ catalog' = populated
          /\ stored' = IF Len(populated) > Len(loaded) THEN save_catalog(populated) ELSE stored
    /\ last' = [NoLast EXCEPT !.op = "startup_check"]
    /\ UNCHANGED <<disk, cache, pass, others>>

-----------------------------------------------------------------------------
(* server.py: POST /autopilot_lora/update *)

\* The entry the endpoint creates when it finds none: keyed by the file_hash
\* of the request, or by "temp_" + file_name when the request has no hash.
UpdateEntry(k, file_name) ==
    [key |-> k, file |-> file_name, full_path |-> "", sha256 |-> "",
     available |-> TRUE, enabled |-> TRUE, summary |-> "",
     trained_words |-> <<>>, tags |-> <<>>, base_compat |-> <<"Other">>,
     default_weight |-> DefaultWeight, civitai_text |-> "",
     indexed_by_llm |-> FALSE, indexing_attempted |-> FALSE]

\* The key under which the endpoint finds the entry to edit, "" if none: the
\* file_hash when it is a key, else the first entry whose 'file' is the
\* file_name or whose 'file_hash' field (every entry carries its key there)
\* equals the request's.  "" stands for an absent file_hash or file_name
\* (None), which equals no entry's field.
UpdateLookup(doc, file_hash, file_name) ==
    IF file_hash # "" /\ file_hash \in Keys(doc) THEN file_hash
    ELSE LET hits == {i \in DOMAIN doc :
                         \/ file_name # "" /\ doc[i].file = file_name
                         \/ file_hash # "" /\ doc[i].key = file_hash}
         IN IF hits = {} THEN ""
            ELSE doc[CHOOSE i \in hits : \A j \in hits : i <= j].key

\* The edits of the model: each sets one allowed field, as sent.
EditedWeight == 500
ApplyEdit(e, edit) ==
    CASE edit = "disable" -> [e EXCEPT !.enabled = FALSE]
      [] edit = "weight" -> [e EXCEPT !.default_weight = EditedWeight]

\* The request bodies the endpoint is sent: one names the file and switches
\* the entry off, one names the content identifier and sets a weight.
UpdateRequests ==
    { [file_hash |-> "", file_name |-> FileName(1), edit |-> "disable"],
      [file_hash |-> compute_file_hash(1), file_name |-> "", edit |-> "weight"] }

\* The key of the entry the endpoint edits: the one found, else the
\* file_hash of the request, else "temp_" + file_name.
UpdateKey(doc, file_hash, file_name) ==
    LET found == UpdateLookup(doc, file_hash, file_name)
    IN IF found # "" THEN found
       ELSE IF file_hash # "" THEN file_hash ELSE "temp_" \o file_name

\* update_lora_info: reads the document, edits or creates the entry, writes
\* the document.  The in-memory catalog is not touched.
update_lora_info(doc, file_hash, file_name, edit) ==
    LET k == UpdateKey(doc, file_hash, file_name)
        e == IF k \in Keys(doc) THEN Get(doc, k) ELSE UpdateEntry(k, file_name)
    IN Put(doc, k, ApplyEdit(e, edit))

\* The handler runs on the server's event loop, as the batch index does: it
\* cannot run while a batch-index request is being served.
UpdateLoraInfo(file_hash, file_name, edit) ==
    /\ pass.kind # "server"
    /\ file_hash # "" \/ file_name # ""
    /\ stored' = save_catalog(update_lora_info(load_catalog(stored), file_hash, file_name, edit))
    /\ last' = [NoLast EXCEPT !.op = "update_lora_info", !.edit = edit,
                              !.key = UpdateKey(load_catalog(stored), file_hash, file_name)]
    /\ UNCHANGED <<disk, catalog, cache, pass, others>>

-----------------------------------------------------------------------------
(* utils/indexing_llm.py as the passes see it *)

\* What index_with_llm returns on success: parse_indexing_response has
\* stripped the words, lowercased the tags and clamped the strength.
Extracted ==
    [summary |-> "s1", trainedWords |-> <<"gamma", "gamma">>, tags |-> <<"t1">>,
     recommendedStrength |-> 150]

\* suggest_base_family_with_llm: the keyword match on the registry text.
suggest_base_family_with_llm(text) ==
    IF text = build_civitai_summary_text(1) THEN "SDXL 1.0" ELSE "Other"

-----------------------------------------------------------------------------
(* server.py: POST /autopilot_lora/index *)

\* catalog_by_path.get(path): the last entry stored with that full_path.
EntryByPath(cat, full_path) ==
    LET hits == {i \in DOMAIN cat : cat[i].full_path = full_path}
    IN IF hits = {} THEN 0 ELSE CHOOSE i \in hits : \A j \in hits : j <= i

\* catalog_by_name.get(name)[0]: the first entry without a full_path that
\* has that file name.
EntryByName(cat, name) ==
    LET hits == {i \in DOMAIN cat : cat[i].full_path = "" /\ cat[i].file = name}
    IN IF hits = {} THEN 0 ELSE CHOOSE i \in hits : \A j \in hits : i <= j

\* The catalog entry the batch matches to the file at p (0: none).
MatchedEntry(cat, p) ==
    IF EntryByPath(cat, FullPath(p)) # 0 THEN EntryByPath(cat, FullPath(p))
    ELSE EntryByName(cat, FileName(p))

\* Whether the batch lists the file at p as unindexed.
IsUnindexed(cat, p) ==
    LET i == MatchedEntry(cat, p)
    IN IF i = 0 THEN TRUE
       ELSE cat[i].enabled /\ ~cat[i].indexing_attempted

Unindexed(cat, dsk) == SeqOfPaths({p \in scan_lora_files(dsk) : IsUnindexed(cat, p)})

FirstN(s, n) == SubSeq(s, 1, IF Len(s) < n THEN Len(s) ELSE n)

DefaultMaxLoras == 10
MaxLorasInputs == {1, DefaultMaxLoras}

\* The request arrives: the folder is listed, the catalog reloaded, the
\* unindexed files chosen and cut to max_loras.
ServerBatchBegin(max_loras, api_key) ==
    /\ pass.kind = "none"
    /\ catalog' = load_catalog(stored)
    /\ pass' = [kind |-> "server", todo |-> FirstN(Unindexed(catalog', disk), max_loras),
                api_key |-> api_key, null_new |-> {}]
    /\ last' = [NoLast EXCEPT !.op = "pass_begin", !.by = "server"]
    /\ UNCHANGED <<disk, stored, cache, others>>

\* One turn of the loop "for lora_file, _ in to_index", the file gone from
\* disk: compute_file_hash raises, the handler logs and goes on.
ServerBatchStepError ==
    /\ pass.kind = "server" /\ pass.todo # <<>>
    /\ disk[Head(pass.todo)] = 0
    /\ pass' = [pass EXCEPT !.todo = Tail(pass.todo)]
    /\ last' = [NoLast EXCEPT !.op = "step_error", !.by = "server", !.path = Head(pass.todo)]
    /\ UNCHANGED <<disk, catalog, stored, cache, others>>

\* One turn of the loop on a readable file: basic indexing, then either the
\* LLM extraction (which reloads the catalog for the known families first),
\* the no-key record, or the no-registry-data mark.
ServerBatchStep(net, llm_ok) ==
    /\ pass.kind = "server" /\ pass.todo # <<>>
    /\ disk[Head(pass.todo)] # 0
    /\ LET p == Head(pass.todo)
           r == index_lora_basic(catalog, cache, p, disk[p], net)
           h == r.hash
           entry == Get(r.catalog, h)
           has_text == entry.civitai_text # ""
           reloaded == load_catalog(stored)
       IN /\ cache' = r.cache
          /\ \E order \in (IF has_text /\ pass.api_key /\ llm_ok
                            THEN WordOrders(reloaded, h) ELSE {<<>>}) :
               catalog' =
                 IF has_text /\ ~pass.api_key
                     THEN Put(r.catalog, h, [entry EXCEPT !.indexed_by_llm = FALSE,
                                                          !.indexing_attempted = TRUE])
                 ELSE IF has_text /\ llm_ok
                     THEN mark_llm_indexed(reloaded, h, Extracted.summary,
                              Extracted.trainedWords, Extracted.tags, entry.base_compat,
                              Extracted.recommendedStrength, order)
                 ELSE IF has_text THEN reloaded
                 ELSE mark_indexing_attempted(r.catalog, h)
          /\ llm_ok \in (IF has_text /\ pass.api_key THEN BOOLEAN ELSE {FALSE})
          /\ net \in (IF r.created /\ r.requested THEN NetOutcomes ELSE {"answer"})
          /\ pass' = [pass EXCEPT
                        !.todo = Tail(pass.todo),
                        !.null_new = IF r.created /\ r.cache[disk[p]] = "not_found"
                                     THEN pass.null_new \cup {h} ELSE pass.null_new]
          /\ last' = [NoLast EXCEPT
                        !.op = "step", !.by = "server", !.path = p, !.key = h,
                        !.net = IF r.created /\ r.requested THEN net ELSE "none",
                        !.llm = has_text /\ pass.api_key,
                        !.ok = has_text /\ pass.api_key /\ llm_ok,
                        !.sub_attempted = has_text /\ pass.api_key /\ entry.indexing_attempted,
                        !.sub_enabled = has_text /\ pass.api_key /\ entry.enabled]
    /\ UNCHANGED <<disk, stored, others>>

\* The loop is over: the handler saves the in-memory catalog and answers.
ServerBatchEnd ==
    /\ pass.kind = "server" /\ pass.todo = <<>>
    /\ stored' = save_catalog(catalog)
    /\ pass' = Idle
    /\ last' = [NoLast EXCEPT !.op = "pass_end", !.by = "server", !.keys = pass.null_new]
    /\ UNCHANGED <<disk, catalog, cache, others>>

-----------------------------------------------------------------------------
(* nodes/lora_manager.py: _scan_and_index; *)
(* nodes/smart_power_lora_loader.py: _reindex_new_loras *)

\* Both begin alike: detect_new_loras; nothing new: return; no API key: the
\* new files get basic indexing only; else get_known_base_families, which
\* reloads the catalog from the document.
ScanBegin(kind, api_key) ==
    /\ pass.kind = "none"
    /\ LET new_files == detect_new_files(catalog, disk)
           detected == detect_new_catalog(catalog, disk)
       IN /\ catalog' = IF new_files # <<>> /\ api_key
                        THEN load_catalog(stored) ELSE detected
          /\ pass' = IF new_files = <<>> THEN Idle
                     ELSE [kind |-> kind, todo |-> new_files, api_key |-> api_key,
                           null_new |-> {}]
          /\ last' = [NoLast EXCEPT
                        !.op = IF new_files = <<>> THEN "pass_end" ELSE "pass_begin",
                        !.by = kind]
    /\ UNCHANGED <<disk, stored, cache, others>>

\* A file of the list is gone when its turn comes: compute_file_hash raises
\* and nothing in the node catches it, the run of the node ends there.
ScanAbort(kind) ==
    /\ pass.kind = kind /\ pass.todo # <<>>
    /\ disk[Head(pass.todo)] = 0
    /\ pass' = Idle
    /\ last' = [NoLast EXCEPT !.op = "pass_abort", !.by = kind, !.path = Head(pass.todo)]
    /\ UNCHANGED <<disk, catalog, stored, cache, others>>

\* One turn of the loop over new_files.  Without a key: index_lora_basic.
\* With a key: index_lora_basic, the LLM extraction if the entry has
\* registry text, mark_llm_indexed on success, save_catalog.  The manager
\* passes no strength; the loader passes the extracted one.
ScanStep(kind, net, llm_ok) ==
    /\ pass.kind = kind /\ pass.todo # <<>>
    /\ disk[Head(pass.todo)] # 0
    /\ LET p == Head(pass.todo)
           r == index_lora_basic(catalog, cache, p, disk[p], net)
           h == r.hash
           entry == Get(r.catalog, h)
           submit == pass.api_key /\ entry.civitai_text # ""
           family == suggest_base_family_with_llm(entry.civitai_text)
           strength == IF kind = "loader" THEN Extracted.recommendedStrength ELSE NoStrength
       IN /\ cache' = r.cache
          /\ \E order \in (IF submit /\ llm_ok THEN WordOrders(r.catalog, h) ELSE {<<>>}) :
               catalog' = IF submit /\ llm_ok
                          THEN mark_llm_indexed(r.catalog, h, Extracted.summary,
                                   Extracted.trainedWords, Extracted.tags, <<family>>,
                                   strength, order)
                          ELSE r.catalog
          /\ stored' = IF pass.api_key THEN save_catalog(catalog') ELSE stored
          /\ llm_ok \in (IF submit THEN BOOLEAN ELSE {FALSE})
          /\ net \in (IF r.created /\ r.requested THEN NetOutcomes ELSE {"answer"})
          /\ pass' = [pass EXCEPT
                        !.todo = Tail(pass.todo),
                        !.null_new = IF r.created /\ r.cache[disk[p]] = "not_found"
                                     THEN pass.null_new \cup {h} ELSE pass.null_new]
          /\ last' = [NoLast EXCEPT
                        !.op = "step", !.by = kind, !.path = p, !.key = h,
                        !.net = IF r.created /\ r.requested THEN net ELSE "none",
                        !.llm = submit,
                        !.ok = submit /\ llm_ok,
                        !.sub_attempted = submit /\ entry.indexing_attempted,
                        !.sub_enabled = submit /\ entry.enabled]
    /\ UNCHANGED <<disk, others>>

\* The loop is over.  Without a key the catalog is saved now; with a key
\* the loader saves once more and the manager returns.
ScanEnd(kind) ==
    /\ pass.kind = kind /\ pass.todo = <<>>
    /\ stored' = IF ~pass.api_key \/ kind = "loader" THEN save_catalog(catalog) ELSE stored
    /\ pass' = Idle
    /\ last' = [NoLast EXCEPT !.op = "pass_end", !.by = kind, !.keys = pass.null_new]
    /\ UNCHANGED <<disk, catalog, cache, others>>

ManagerScanBegin(api_key) == ScanBegin("manager", api_key)
ManagerScanStep(net, llm_ok) == ScanStep("manager", net, llm_ok)
ManagerScanAbort == ScanAbort("manager")
ManagerScanEnd == ScanEnd("manager")

LoaderReindexBegin(api_key) == ScanBegin("loader", api_key)
LoaderReindexStep(net, llm_ok) == ScanStep("loader", net, llm_ok)
LoaderReindexAbort == ScanAbort("loader")
LoaderReindexEnd == ScanEnd("loader")

-----------------------------------------------------------------------------
(* nodes/lora_manager.py: _reindex_selected *)

\* The first in-memory entry with that file name (0: none).
EntryByFile(cat, lora_name) ==
    LET hits == {i \in DOMAIN cat : cat[i].file = lora_name}
    IN IF hits = {} THEN 0 ELSE CHOOSE i \in hits : \A j \in hits : i <= j

\* The weights the node's edit_weight widget is given in the model; the
\* widget ranges over 0.0 .. 2.0.  1.0 with no other edit means "re-index".
ManualWeights == {0}

\* "Manual edits take precedence": the edit_weight differs from 1.0 (the
\* text fields are left empty, so summary, words, tags and family are passed
\* back as stored), mark_llm_indexed, then the weight as given, save.
ManagerManualEdit(lora_name, weight) ==
    /\ pass.kind = "none"
    /\ EntryByFile(catalog, lora_name) # 0
    /\ weight # DefaultWeight
    /\ LET entry == catalog[EntryByFile(catalog, lora_name)]
           file_hash == entry.sha256
       IN /\ \E order \in WordOrders(catalog, file_hash) :
               LET marked == mark_llm_indexed(catalog, file_hash, entry.summary,
                                 entry.trained_words, entry.tags, entry.base_compat,
                                 NoStrength, order)
               IN catalog' = IF file_hash \in Keys(marked)
                             THEN Put(marked, file_hash,
                                      [Get(marked, file_hash) EXCEPT !.default_weight = weight])
                             ELSE marked
          /\ stored' = save_catalog(catalog')
    /\ last' = [NoLast EXCEPT !.op = "manual_edit", !.by = "manager"]
    /\ UNCHANGED <<disk, cache, pass, others>>

\* "Otherwise, re-index with LLM": an explicit request for one entry, with a
\* key configured.  It stops early when the entry is indexed and force is
\* off, or when the entry has no registry text.
ManagerReindex(lora_name, force, llm_ok) ==
    /\ pass.kind = "none"
    /\ EntryByFile(catalog, lora_name) # 0
    /\ LET entry == catalog[EntryByFile(catalog, lora_name)]
           file_hash == entry.sha256
           reloaded == load_catalog(stored)
           family == suggest_base_family_with_llm(entry.civitai_text)
       IN /\ force \/ ~entry.indexed_by_llm
          /\ entry.civitai_text # ""
          /\ \E order \in (IF llm_ok THEN WordOrders(reloaded, file_hash) ELSE {<<>>}) :
               catalog' = IF llm_ok
                          THEN mark_llm_indexed(reloaded, file_hash, Extracted.summary,
                                   Extracted.trainedWords, Extracted.tags, <<family>>,
                                   NoStrength, order)
                          ELSE reloaded
          /\ stored' = IF llm_ok THEN save_catalog(catalog') ELSE stored
          /\ last' = [NoLast EXCEPT
                        !.op = "reindex", !.by = "manager", !.llm = TRUE, !.ok = llm_ok,
                        !.sub_attempted = entry.indexing_attempted,
                        !.sub_enabled = entry.enabled]
    /\ UNCHANGED <<disk, cache, pass, others>>

-----------------------------------------------------------------------------
(* The program: the handlers, and the folder changing under them *)

Next ==
    \/ \E p \in PathIds, c \in Contents : FsWrite(p, c)
    \/ \E p \in PathIds : FsRemove(p)
    \/ Startup
    \/ \E q \in UpdateRequests : UpdateLoraInfo(q.file_hash, q.file_name, q.edit)
    \/ \E m \in MaxLorasInputs, k \in BOOLEAN : ServerBatchBegin(m, k)
    \/ ServerBatchStepError
    \/ \E net \in NetOutcomes, ok \in BOOLEAN : ServerBatchStep(net, ok)
    \/ ServerBatchEnd
    \/ \E k \in BOOLEAN : ManagerScanBegin(k)
    \/ ManagerScanAbort
    \/ \E net \in NetOutcomes, ok \in BOOLEAN : ManagerScanStep(net, ok)
    \/ ManagerScanEnd
    \/ \E k \in BOOLEAN : LoaderReindexBegin(k)
    \/ LoaderReindexAbort
    \/ \E net \in NetOutcomes, ok \in BOOLEAN : LoaderReindexStep(net, ok)
    \/ LoaderReindexEnd
    \/ \E n \in PathNames, w \in ManualWeights : ManagerManualEdit(n, w)
    \/ \E n \in PathNames, f \in BOOLEAN, ok \in BOOLEAN : ManagerReindex(n, f, ok)

Spec == Init /\ [][Next]_vars

-----------------------------------------------------------------------------
(* A save of the catalog and the loads of another thread of the process
   (the update endpoint loads the document while a node saves it, and the
   other way round). *)

\* save_catalog, open(path, 'w'): the file is emptied.
SaveOpen(doc) ==
    /\ ~io.open
    /\ io' = [io EXCEPT !.text = <<>>, !.open = TRUE, !.todo = json_dump(doc),
                        !.before = load_catalog_file(io.text), !.after = doc,
                        !.op = "open", !.failed = FALSE, !.held = <<>>]
    /\ UNCHANGED notIo

\* json.dump: the next pieces reach the file.
SaveWrite(n) ==
    /\ io.open
    /\ n \in 1..Len(io.todo)
    /\ io' = [io EXCEPT !.text = io.text \o SubSeq(io.todo, 1, n),
                        !.todo = SubSeq(io.todo, n + 1, Len(io.todo)),
                        !.op = "write"]
    /\ UNCHANGED notIo

\* The end of the with block: the file is closed with everything written.
SaveClose ==
    /\ io.open
    /\ io.todo = <<>>
    /\ io' = [io EXCEPT !.open = FALSE, !.op = "close"]
    /\ UNCHANGED notIo

\* load_catalog of another thread.  failed: json.load raised and the
\* loader went on with the empty catalog; held: the catalog the file was
\* being given at that moment.
LoadFile ==
    /\ io' = [io EXCEPT !.op = "load", !.loaded = load_catalog_file(io.text),
                        !.during = io.open,
                        !.failed = ~json_load(io.text).ok,
                        !.held = IF json_load(io.text).ok THEN <<>> ELSE io.after]
    /\ UNCHANGED notIo

\* update_lora_info on what it loaded: the entry found by its key, or
\* created, gets the edited field.
update_doc(doc, e) ==
    IF e.key \in {doc[i].key : i \in DOMAIN doc}
    THEN [i \in DOMAIN doc |-> IF doc[i].key = e.key THEN e ELSE doc[i]]
    ELSE Append(doc, e)

\* The thread that loaded saves: update_lora_info writes the catalog it
\* loaded, edited, once no other save is in progress.
UpdateSave(e) ==
    /\ ~io.open
    /\ io.op \in {"load", "close"}
    /\ io' = [io EXCEPT !.text = <<>>, !.open = TRUE,
                        !.todo = json_dump(update_doc(io.loaded, e)),
                        !.before = load_catalog_file(io.text),
                        !.after = update_doc(io.loaded, e),
                        !.op = "resave", !.failed = FALSE, !.held = <<>>]
    /\ UNCHANGED notIo

NextFile ==
    \/ \E doc \in Docs : SaveOpen(doc)
    \/ \E n \in 1..(MaxDoc + 2) : SaveWrite(n)
    \/ SaveClose
    \/ LoadFile
    \/ \E e \in DocEntries : UpdateSave(e)

SpecFile == Init /\ [][NextFile]_vars

-----------------------------------------------------------------------------
(* Selection: the functions of utils/lora_selector.py and utils/utils.py,
   applied to the entries of a catalog. Texts are sequences of words (what
   split() gives), lists of phrases are sequences of such sequences. *)

SelEntry(h, f, b) ==
    [file_hash |-> h, file |-> f, base_compat |-> b, is_character |-> FALSE,
     enabled |-> TRUE, disabled |-> FALSE, available |-> TRUE,
     display_name |-> <<"Cat">>, summary |-> <<"a", "cat">>,
     trained_words |-> << <<"cat">> >>, tags |-> << >>]

\* The entries the pools are made of: a plain one, one of another family, one
\* switched off by the update endpoint, one switched off by the manager node,
\* one whose file is gone (and whose name another entry now carries), one
\* with no family, a character, and one of a neighbouring family.
SelEntries ==
    { SelEntry("sha256:aa", "x.safetensors", <<"SDXL 1.0">>),
      [SelEntry("sha256:bb", "y.safetensors", <<"SD 1.5">>) EXCEPT
          !.display_name = <<"Dog">>, !.summary = << >>,
          !.trained_words = << >>, !.tags = << <<"dog">> >>],
      [SelEntry("sha256:cc", "z.safetensors", <<"SDXL 1.0">>) EXCEPT
          !.enabled = FALSE, !.summary = << >>],
      [SelEntry("sha256:dd", "w.safetensors", <<"SDXL 1.0", "SD 1.5">>) EXCEPT
          !.disabled = TRUE],
      [SelEntry("sha256:ee", "x.safetensors", <<"SDXL 1.0">>) EXCEPT
          !.available = FALSE, !.summary = <<"dog">>],
      [SelEntry("sha256:ff", "y.safetensors", << >>) EXCEPT
          !.summary = << >>],
      [SelEntry("sha256:gg", "z.safetensors", <<"SDXL 1.0">>) EXCEPT
          !.is_character = TRUE],
      [SelEntry("sha256:hh", "w.safetensors", <<"SD 1.4">>) EXCEPT
          !.display_name = <<"Dog">>] }

MaxPool == 3

\* get_all_entries(): the values of a dict, so no entry twice.
Pools ==
    UNION {{s \in [1..n -> SelEntries] : NoDup(s)} : n \in 0..MaxPool}

Targets == {"SDXL 1.0", "SD 1.5"}
Contexts == {<< >>, <<"Cat">>, <<"a", "dog">>}
AllowLists == {<< >>, <<"x">>, <<"x.safetensors", "y">>}
NameLists == {<< >>, <<"x.safetensors">>, <<"q.safetensors", "y.safetensors">>,
              <<"z.safetensors", "x.safetensors">>}

\* str.lower() on the words of the model.
Lower(w) == CASE w = "Cat" -> "cat" [] w = "Dog" -> "dog" [] w = "Style" -> "style"
                [] w = "Gemini-Pro" -> "gemini-pro" [] OTHER -> w

RECURSIVE Flatten(_)
\* " ".join(phrases), split again.
Flatten(phrases) ==
    IF phrases = << >> THEN << >> ELSE Head(phrases) \o Flatten(Tail(phrases))

\* set(text.lower().split())
Tokens(words) == {Lower(words[i]) : i \in DOMAIN words}

\* fuzzy_token_overlap: the Jaccard similarity as a fraction; 0 when either
\* side has no token.
fuzzy_token_overlap(text1, text2) ==
    LET tokens1 == Tokens(text1)
        tokens2 == Tokens(text2)
    IN IF tokens1 = {} \/ tokens2 = {}
       THEN [num |-> 0, den |-> 1]
       ELSE [num |-> Cardinality(tokens1 \cap tokens2),
             den |-> Cardinality(tokens1 \cup tokens2)]

\* The order of two scores as floats.
ScoreGreater(a, b) == a.num * b.den > b.num * a.den

Searchable(candidate) ==
    candidate.display_name \o candidate.summary
        \o Flatten(candidate.trained_words) \o Flatten(candidate.tags)

Score(base_context, candidate) ==
    fuzzy_token_overlap(base_context, Searchable(candidate))

\* The sort of the other direction, for comparison.
InsertAscending(base_context, c, sorted) ==
    LET before == {i \in DOMAIN sorted :
                     ~ScoreGreater(Score(base_context, sorted[i]), Score(base_context, c))}
        n == Cardinality(before)
    IN SubSeq(sorted, 1, n) \o <<c>> \o SubSeq(sorted, n + 1, Len(sorted))

\* list.sort(key=score, reverse=True) one element at a time: c, which came
\* before all of sorted, goes behind the entries of a greater score only.
InsertByScore(base_context, c, sorted) ==
    LET before == {i \in DOMAIN sorted :
                     ScoreGreater(Score(base_context, sorted[i]), Score(base_context, c))}
        n == Cardinality(before)
    IN SubSeq(sorted, 1, n) \o <<c>> \o SubSeq(sorted, n + 1, Len(sorted))

RECURSIVE rank_candidates_by_relevance(_, _)
rank_candidates_by_relevance(base_context, candidates) ==
    IF candidates = << >> THEN << >>
    ELSE InsertByScore(base_context, Head(candidates),
                       rank_candidates_by_relevance(base_context, Tail(candidates)))

\* BaseModelMapper.is_compatible
is_compatible(lora_models, target_model) ==
    IF lora_models = << >> THEN FALSE ELSE target_model \in Range(lora_models)

RECURSIVE Filter(_, _)
\* The entries of a list that are in the set S, in the order of the list.
Filter(s, S) ==
    IF s = << >> THEN << >>
    ELSE IF s[1] \in S THEN <<s[1]>> \o Filter(Tail(s), S) ELSE Filter(Tail(s), S)

filter_by_base_model(catalog_entries, base_model_family) ==
    Filter(catalog_entries,
           {e \in Range(catalog_entries) : is_compatible(e.base_compat, base_model_family)})

BareNames == {"x", "y", "z", "w", "q"}

\* name if name.endswith('.safetensors') else name + '.safetensors'
WithExtension(name) ==
    IF \E b \in BareNames : name = b \o ".safetensors"
    THEN name ELSE name \o ".safetensors"

filter_by_allowlist(catalog_entries, allowlist) ==
    IF allowlist = << >> THEN catalog_entries
    ELSE LET normalized_allowlist == {WithExtension(allowlist[i]) : i \in DOMAIN allowlist}
         IN Filter(catalog_entries,
                   {e \in Range(catalog_entries) : e.file \in normalized_allowlist})

filter_non_character(catalog_entries) ==
    Filter(catalog_entries, {e \in Range(catalog_entries) : ~e.is_character})

MaxCandidates == 30

get_candidates_for_autoselect(catalog_entries, base_model_family, allowlist, base_context, max_candidates) ==
    FirstN(rank_candidates_by_relevance(base_context,
               filter_non_character(
                   filter_by_allowlist(
                       filter_by_base_model(catalog_entries, base_model_family),
                       allowlist))),
           max_candidates)

RECURSIVE MergeInto(_, _)
\* The loop over a list of merge_manual_and_auto_loras: an entry is appended
\* unless its file was seen.
MergeInto(merged, loras) ==
    IF loras = << >> THEN merged
    ELSE IF \E i \in DOMAIN merged : merged[i].file = Head(loras).file
         THEN MergeInto(merged, Tail(loras))
         ELSE MergeInto(Append(merged, Head(loras)), Tail(loras))

\* The merge without the set of seen files, for comparison.
merge_keeping_all(manual_loras, auto_loras) == manual_loras \o auto_loras

merge_manual_and_auto_loras(manual_loras, auto_loras) ==
    MergeInto(MergeInto(<< >>, manual_loras), auto_loras)

\* catalog_by_file: the last entry of each file in the list.
CatalogByFile(catalog_entries, name) ==
    LET I == {i \in DOMAIN catalog_entries : catalog_entries[i].file = name}
    IN catalog_entries[CHOOSE i \in I : \A j \in I : j <= i]

RECURSIVE resolve_selected_loras_from_llm(_, _)
resolve_selected_loras_from_llm(llm_selection, catalog_entries) ==
    IF llm_selection = << >> THEN << >>
    ELSE LET name == Head(llm_selection)
             rest == resolve_selected_loras_from_llm(Tail(llm_selection), catalog_entries)
         IN IF \E i \in DOMAIN catalog_entries : catalog_entries[i].file = name
            THEN <<CatalogByFile(catalog_entries, name)>> \o rest
            ELSE rest

\* The parameters of resolve_selected_loras_from_llm and the keywords the
\* loader calls it with: a keyword that is no parameter raises TypeError
\* before the body runs.
ResolveParameters == {"llm_selection", "catalog_entries"}
AutoselectKeywords == {"llm_selection", "catalog_entries", "selection_metadata"}

InitSelector ==
    /\ InitHandlers
    /\ io = NoIo
    /\ call = NoCall
    /\ reg = NoReg
    /\ idx = NoIdx
    /\ vis = NoVis
    /\ run = NoRun
    /\ sel \in {[NoSel EXCEPT !.pool = pool] : pool \in Pools}

\* A function is applied to the inputs drawn, once.
Fresh == sel.op = "none"

ApplyFilterByBaseModel(target) ==
    /\ Fresh
    /\ sel' = [NoSel EXCEPT !.op = "filter_by_base_model", !.pool = sel.pool,
                 !.target = target,
                 !.result = filter_by_base_model(sel.pool, target)]
    /\ UNCHANGED notSel

ApplyRank(context) ==
    /\ Fresh
    /\ sel' = [NoSel EXCEPT !.op = "rank_candidates_by_relevance", !.pool = sel.pool,
                 !.context = context,
                 !.result = rank_candidates_by_relevance(context, sel.pool)]
    /\ UNCHANGED notSel

ApplyGetCandidates(target, allowlist, context) ==
    /\ Fresh
    /\ sel' = [NoSel EXCEPT !.op = "get_candidates_for_autoselect", !.pool = sel.pool,
                 !.target = target, !.allowlist = allowlist, !.context = context,
                 !.result = get_candidates_for_autoselect(sel.pool, target, allowlist,
                                                          context, MaxCandidates)]
    /\ UNCHANGED notSel

\* The lists the loader merges: entries of the catalog.
MaxList == 2
EntryLists(pool) == UNION {[1..n -> Range(pool)] : n \in 0..MaxList}

ApplyMerge ==
    /\ Fresh
    /\ \E manual \in EntryLists(sel.pool), auto \in EntryLists(sel.pool) :
          sel' = [NoSel EXCEPT !.op = "merge_manual_and_auto_loras", !.pool = sel.pool,
                    !.manual = manual, !.auto = auto,
                    !.result = merge_manual_and_auto_loras(manual, auto)]
    /\ UNCHANGED notSel

ApplyResolve(names) ==
    /\ Fresh
    /\ sel' = [NoSel EXCEPT !.op = "resolve_selected_loras_from_llm", !.pool = sel.pool,
                 !.names = names, !.cands = sel.pool,
                 !.result = resolve_selected_loras_from_llm(names, sel.pool)]
    /\ UNCHANGED notSel

\* _autoselect_loras from the candidates on, with the LLM's answer as input:
\* no candidates, nothing resolved; else the call of the resolver.
AutoselectLoras(target, context, names) ==
    LET candidates == get_candidates_for_autoselect(sel.pool, target, << >>, context,
                                                    MaxCandidates)
        raises == ~(AutoselectKeywords \subseteq ResolveParameters)
    IN /\ Fresh
       /\ sel' = [NoSel EXCEPT !.op = IF candidates = << >> THEN "no_candidates"
                                      ELSE "resolve_selected_loras_from_llm",
                    !.pool = sel.pool, !.target = target, !.context = context,
                    !.names = names, !.cands = candidates,
                    !.raised = candidates # << >> /\ raises,
                    !.result = IF candidates = << >> \/ raises THEN << >>
                               ELSE resolve_selected_loras_from_llm(names, candidates)]
       /\ UNCHANGED notSel

NextSelector ==
    \/ \E target \in Targets : ApplyFilterByBaseModel(target)
    \/ \E context \in Contexts : ApplyRank(context)
    \/ \E target \in Targets, allowlist \in AllowLists, context \in Contexts :
          ApplyGetCandidates(target, allowlist, context)
    \/ ApplyMerge
    \/ \E names \in NameLists : ApplyResolve(names)
    \/ \E target \in Targets, context \in Contexts, names \in NameLists :
          AutoselectLoras(target, context, names)

SpecSelector == InitSelector /\ [][NextSelector]_vars

-----------------------------------------------------------------------------
(* A provider call: generate_text of GroqProvider and of GeminiProvider, one
   turn of the retry loop at a time, with what the service answers as input. *)

Providers == {"groq", "gemini"}

\* What a request can come back with. groq: 200 with choices, 200 without,
\* 429, another status, an exception of requests. gemini: a response with
\* candidates, one without, an exception naming 429 or quota, one naming
\* safety or blocked, one naming both, another exception.
Answers(provider) ==
    IF provider = "groq"
    THEN {"success", "empty", "rate_limit", "http_error", "exception"}
    ELSE {"success", "empty", "rate_limit", "blocked", "blocked_quota", "exception"}

\* What the message of the exception holds: '429' or 'quota'; 'safety' or
\* 'blocked'. "blocked_quota" is a safety rejection whose message holds both.
Mentions429(answer) == answer \in {"rate_limit", "blocked_quota"}
MentionsSafety(answer) == answer \in {"blocked", "blocked_quota"}

DefaultMaxRetries == 2
MaxRetries == 3
ErrorDelay == 2

\* A wait that grows by one second a turn, for comparison.
LinearBackoff(n) == n + 1

RECURSIVE Pow2(_)
Pow2(n) == IF n = 0 THEN 1 ELSE 2 * Pow2(n - 1)

\* The loop without the wait of the rate-limit branch, for comparison.
AttemptWithoutBackoff(provider, attempt, max_retries, answer) ==
    CASE answer = "success" ->
           [return |-> TRUE, sleep |-> << >>,
            result |-> [success |-> TRUE, text |-> "text", error |-> ""]]
      [] answer = "rate_limit" ->
           [return |-> FALSE, sleep |-> << >>, result |-> NoResult]
      [] OTHER ->
           [return |-> TRUE, sleep |-> << >>,
            result |-> [success |-> FALSE, text |-> "", error |-> answer]]

\* The body of the loop for one attempt (0-based): whether it returns, what
\* it returns, and the seconds it sleeps before the next turn.
Attempt(provider, attempt, max_retries, answer) ==
    CASE answer = "success" ->
           [return |-> TRUE, sleep |-> << >>,
            result |-> [success |-> TRUE, text |-> "text", error |-> ""]]
      [] answer = "empty" ->
           [return |-> TRUE, sleep |-> << >>,
            result |-> [success |-> FALSE, text |-> "",
                        error |-> IF provider = "groq" THEN "No choices in response"
                                  ELSE "No response candidates"]]
      [] Mentions429(answer) ->
           [return |-> FALSE, sleep |-> <<Pow2(attempt)>>, result |-> NoResult]
      [] answer = "http_error" ->
           [return |-> TRUE, sleep |-> << >>,
            result |-> [success |-> FALSE, text |-> "", error |-> "HTTP error"]]
      [] MentionsSafety(answer) /\ ~Mentions429(answer) ->
           [return |-> TRUE, sleep |-> << >>,
            result |-> [success |-> FALSE, text |-> "",
                        error |-> "Content blocked by safety filters"]]
      [] OTHER ->
           IF attempt < max_retries - 1
           THEN [return |-> FALSE, sleep |-> <<ErrorDelay>>, result |-> NoResult]
           ELSE [return |-> TRUE, sleep |-> << >>,
                 result |-> [success |-> FALSE, text |-> "", error |-> "Request error"]]

\* generate_text is called.
GenerateBegin(provider, max_retries) ==
    /\ ~call.active
    /\ call' = [NoCall EXCEPT !.op = "begin", !.provider = provider,
                  !.max_retries = max_retries, !.active = TRUE]
    /\ UNCHANGED notCall

\* One turn of the loop: the request, its answer, and the return, or the
\* sleep and the next turn; after the last turn the loop is left and the
\* call returns its failure.
GenerateAttempt(answer) ==
    /\ call.active
    /\ answer \in Answers(call.provider)
    /\ LET r == Attempt(call.provider, call.attempt, call.max_retries, answer)
           left == ~r.return /\ call.attempt + 1 >= call.max_retries
       IN call' = [call EXCEPT
              !.op = IF r.return \/ left THEN "return" ELSE "retry",
              !.answers = Append(call.answers, answer),
              !.requests = call.requests + 1,
              !.sleeps = call.sleeps \o r.sleep,
              !.attempt = call.attempt + 1,
              !.active = ~(r.return \/ left),
              !.returned = call.returned + (IF r.return \/ left THEN 1 ELSE 0),
              !.result = IF r.return THEN r.result
                         ELSE IF left
                              THEN [success |-> FALSE, text |-> "",
                                    error |-> "Failed after all retries"]
                              ELSE NoResult]
    /\ UNCHANGED notCall

AllAnswers == UNION {Answers(provider) : provider \in Providers}

NextProvider ==
    \/ \E provider \in Providers, max_retries \in 1..MaxRetries :
          GenerateBegin(provider, max_retries)
    \/ \E answer \in AllAnswers : GenerateAttempt(answer)

SpecProvider == Init /\ [][NextProvider]_vars

-----------------------------------------------------------------------------
(* The registry lookup: fetch_civitai_by_hash with its cache files and the
   retry loop of _request_json_with_retries, one request at a time, with the
   answer of the registry as input. *)

\* The name of the cache file without any stripping, for comparison.
KeepPrefix(sha256_hash) == sha256_hash

\* sha256_hash[7:] if sha256_hash.startswith('sha256:')
StripPrefix(sha256_hash) ==
    IF \E h \in RegDigests : sha256_hash = "sha256:" \o h
    THEN CHOOSE h \in RegDigests : sha256_hash = "sha256:" \o h
    ELSE sha256_hash

\* The cache file of an identifier: what get_cached_civitai_data and
\* save_civitai_cache open.
CacheFile(sha256_hash) == StripPrefix(sha256_hash)

\* get_cached_civitai_data: a cache keyed only by names that are digests
\* holds nothing under another name.
get_cached_civitai_data(cch, sha256_hash) ==
    IF CacheFile(sha256_hash) \in DOMAIN cch THEN cch[CacheFile(sha256_hash)] ELSE "none"

\* save_civitai_cache
save_civitai_cache(cch, sha256_hash, data) ==
    IF CacheFile(sha256_hash) \in DOMAIN cch
    THEN [cch EXCEPT ![CacheFile(sha256_hash)] = data]
    ELSE cch

RegistryMaxRetries == 3
RetryDelay == 2
RegAnswers == {"200", "404", "429", "500", "exception"}

\* A wait that does not grow, for comparison.
ConstantWait(retry_delay, attempt) == retry_delay

\* wait_time = retry_delay * (2 ** attempt)
RateLimitWait(retry_delay, attempt) == retry_delay * Pow2(attempt)

\* The body of the loop of _request_json_with_retries for one attempt: does
\* it return, with which (success, status), and how long it sleeps if not.
request_json_attempt(attempt, max_retries, retry_delay, answer) ==
    CASE answer = "200" -> [return |-> TRUE, success |-> TRUE, status |-> "200", sleep |-> << >>]
      [] answer = "404" -> [return |-> TRUE, success |-> FALSE, status |-> "404", sleep |-> << >>]
      [] answer = "429" -> [return |-> FALSE, success |-> FALSE, status |-> "none",
                            sleep |-> <<RateLimitWait(retry_delay, attempt)>>]
      [] answer = "500" -> [return |-> TRUE, success |-> FALSE, status |-> "500", sleep |-> << >>]
      [] OTHER ->
           IF attempt < max_retries - 1
           THEN [return |-> FALSE, success |-> FALSE, status |-> "none", sleep |-> <<retry_delay>>]
           ELSE [return |-> TRUE, success |-> FALSE, status |-> "none", sleep |-> << >>]

\* fetch_civitai_by_hash up to its first request: what the cache holds is
\* returned, the not_found marker included; else the lookup goes on.
FetchBegin(sha256_hash) ==
    /\ ~reg.active
    /\ LET cached == get_cached_civitai_data(reg.cache, sha256_hash)
       IN reg' = [reg EXCEPT
              !.op = IF cached # "none" THEN "cached" ELSE "begin",
              !.id = sha256_hash,
              !.active = (cached = "none"),
              !.stage = IF cached = "none" THEN "by_hash" ELSE "",
              !.attempt = 0, !.requests = 0, !.sleeps = << >>, !.answers = << >>,
              !.result = IF cached = "none" THEN "none" ELSE cached]
    /\ UNCHANGED notReg

\* One request of the lookup and what follows it: the by-hash request, then
\* the version and the model requests, each with its retry loop. A 404 to
\* the by-hash request is cached as the marker; another failure of it is
\* returned with nothing cached; the data are cached after the last stage,
\* whatever the two later stages gave.
FetchRequest(answer) ==
    /\ reg.active
    /\ LET r == request_json_attempt(reg.attempt, RegistryMaxRetries, RetryDelay, answer)
           left == ~r.return /\ reg.attempt + 1 >= RegistryMaxRetries
           done == r.return \/ left
           failed == done /\ ~r.success
           counted == [reg EXCEPT
                         !.requests = reg.requests + 1,
                         !.sleeps = reg.sleeps \o r.sleep,
                         !.answers = IF reg.stage = "by_hash" THEN Append(reg.answers, answer)
                                     ELSE reg.answers,
                         !.got404 = IF reg.stage = "by_hash" /\ answer = "404"
                                    THEN reg.got404 \cup {reg.id} ELSE reg.got404]
       IN reg' =
            IF ~done
            THEN [counted EXCEPT !.op = "retry", !.attempt = reg.attempt + 1]
            ELSE IF reg.stage = "by_hash" /\ failed
            THEN [counted EXCEPT
                    !.op = "return", !.active = FALSE, !.result = "null",
                    !.cache = IF r.status = "404"
                              THEN save_civitai_cache(reg.cache, StripPrefix(reg.id), "not_found")
                              ELSE reg.cache]
            ELSE IF reg.stage = "by_hash"
            THEN [counted EXCEPT !.op = "stage", !.stage = "version", !.attempt = 0]
            ELSE IF reg.stage = "version"
            THEN [counted EXCEPT !.op = "stage", !.stage = "model", !.attempt = 0]
            ELSE [counted EXCEPT
                    !.op = "return", !.active = FALSE, !.result = "data",
                    !.cache = save_civitai_cache(reg.cache, StripPrefix(reg.id), "data")]
    /\ UNCHANGED notReg

NextRegistry ==
    \/ \E sha256_hash \in RegIds : FetchBegin(sha256_hash)
    \/ \E answer \in RegAnswers : FetchRequest(answer)

SpecRegistry == Init /\ [][NextRegistry]_vars

-----------------------------------------------------------------------------
(* utils/indexing_llm.py and LoRACatalog.index_lora_basic as functions of
   their inputs *)

MaxIndexContent == 3
IndexContents == 1..MaxIndexContent
CacheStates == {"none", "data", "not_found"}

\* A gallery image entry: "local" has a local_path that exists, "remote" a
\* url whose file is not in the image cache, "cached" a url whose file is,
\* "bare" neither a path nor a url.
ImageKinds == {"local", "remote", "cached", "bare"}
MaxImages == 2
ImageLists == UNION {[1..n -> ImageKinds] : n \in 0..MaxImages}
GalleryLimit == 5

RECURSIVE PrepareEach(_, _)
\* The loop of prepare_gallery_images: the images loaded and the HTTP
\* requests made, entry by entry.
PrepareEach(entries, download_ok) ==
    IF entries = <<>> THEN [images |-> 0, requests |-> <<>>]
    ELSE LET rest == PrepareEach(Tail(entries), download_ok)
             kind == Head(entries)
             asked == IF kind = "remote" THEN <<"image_download">> ELSE <<>>
             got == \/ kind \in {"local", "cached"}
                    \/ kind = "remote" /\ download_ok
         IN [images |-> rest.images + (IF got THEN 1 ELSE 0),
             requests |-> asked \o rest.requests]

\* prepare_gallery_images(image_entries, cache_key)
prepare_gallery_images(image_entries, download_ok) ==
    PrepareEach(SubSeq(image_entries, 1, IF Len(image_entries) < GalleryLimit
                                         THEN Len(image_entries) ELSE GalleryLimit),
                download_ok)

\* provider.supports_vision(model_name).  heuristic is what the provider
\* tells from the model's name; Gemini asks the API for the model's record
\* when the name tells nothing, and listed is what the record says.
supports_vision(provider, heuristic, listed) ==
    IF provider = "groq" THEN [result |-> heuristic, requests |-> <<>>]
    ELSE IF heuristic THEN [result |-> TRUE, requests |-> <<>>]
    ELSE [result |-> listed, requests |-> <<"model_lookup">>]

GenerationAnswers == {"json", "text", "error"}

\* What index_with_llm returns for the provider's answer to the generation
\* call named by request.
Generated(request, answer, before) ==
    [success |-> answer = "json",
     error |-> CASE answer = "json" -> ""
                 [] answer = "text" -> "Failed to parse LLM response as valid JSON"
                 [] OTHER -> "LLM generation error",
     requests |-> Append(before, request)]

\* index_with_llm(civitai_text, provider_name, model_name, api_key, ...)
index_with_llm(provider, heuristic, listed, image_entries, download_ok, answer) ==
    LET gallery == prepare_gallery_images(image_entries, download_ok)
        vision == supports_vision(provider, heuristic, listed)
    IN IF gallery.images > 0
       THEN IF ~vision.result
            THEN [success |-> FALSE, error |-> "does not support vision",
                  requests |-> gallery.requests \o vision.requests]
            ELSE Generated("generate_with_image", answer,
                           gallery.requests \o vision.requests)
       ELSE Generated("generate_text", answer, gallery.requests)

\* BASE_MODELS, in the order of the dict, with the keywords of each model.
BaseModelNames == <<"Other", "SD 1.5", "SDXL 1.0">>
Keywords(model) ==
    CASE model = "Other" -> {"other", "unknown", "custom"}
      [] model = "SD 1.5" -> {"sd 1.5", "sd1.5"}
      [] model = "SDXL 1.0" -> {"sdxl", "sd xl"}
      [] OTHER -> {}

\* The keywords found in a registry text ("keyword in civitai_lower").
Mentions(text) ==
    CASE text = build_civitai_summary_text(1) -> {"sdxl"}
      [] text = build_civitai_summary_text(3) -> {"sdxl", "sd 1.5"}
      [] OTHER -> {}

RECURSIVE FirstMatch(_, _)
\* The first model of the list with a keyword in the text, "" if none.
FirstMatch(models, text) ==
    IF models = <<>> THEN ""
    ELSE IF Keywords(Head(models)) \cap Mentions(text) # {} THEN Head(models)
    ELSE FirstMatch(Tail(models), text)

\* BaseModelMapper.suggest_model_for_llm (alias suggest_family_for_llm)
suggest_model_for_llm(civitai_text, known_models) ==
    LET known == FirstMatch(known_models, civitai_text)
        any == FirstMatch(BaseModelNames, civitai_text)
    IN IF known # "" THEN known ELSE IF any # "" THEN any ELSE "Other"

IndexTexts == {build_civitai_summary_text(c) : c \in IndexContents}
KnownLists == {<<>>, <<"Unknown">>, <<"SD 1.5", "Unknown">>, <<"SD 1.5", "SDXL 1.0", "Unknown">>}
FamilyAnswers == {"SD 1.5", "SDXL 1.0", "Unknown", "Pony", "error"}

\* suggest_base_family_with_llm with the provider's answer to the one
\* generate_text call it can make: the family returned and the calls made.
suggest_base_family(civitai_text, known_families, answer) ==
    LET suggested == suggest_model_for_llm(civitai_text, known_families)
    IN IF suggested # "Unknown" THEN [family |-> suggested, llm_calls |-> 0]
       ELSE IF known_families = <<>> THEN [family |-> "Unknown", llm_calls |-> 0]
       ELSE [family |-> IF answer # "error" /\ answer \in Range(known_families)
                        THEN answer ELSE "Unknown",
             llm_calls |-> 1]

ApplyIndexBasic(p, c, cached, net) ==
    /\ idx.op = "none"
    /\ LET cch == [x \in IndexContents |-> IF x = c THEN cached ELSE "none"]
           r == index_lora_basic(<<>>, cch, p, c, net)
       IN idx' = [NoIdx EXCEPT !.op = "index_lora_basic", !.content = c,
                               !.cached = cached, !.net = net,
                               !.entries = r.catalog,
                               !.requests = IF r.requested THEN <<"by_hash">> ELSE <<>>]
    /\ UNCHANGED notIdx

ApplyIndexWithLLM(provider, heuristic, listed, images, download_ok, answer) ==
    /\ idx.op = "none"
    /\ LET r == index_with_llm(provider, heuristic, listed, images, download_ok, answer)
       IN idx' = [NoIdx EXCEPT !.op = "index_with_llm", !.provider = provider,
                               !.heuristic = heuristic, !.listed = listed,
                               !.images = images, !.download_ok = download_ok,
                               !.answer = answer, !.requests = r.requests,
                               !.success = r.success, !.error = r.error]
    /\ UNCHANGED notIdx

ApplySuggestBaseFamily(text, known, answer) ==
    /\ idx.op = "none"
    /\ LET r == suggest_base_family(text, known, answer)
       IN idx' = [NoIdx EXCEPT !.op = "suggest_base_family_with_llm", !.text = text,
                               !.known = known, !.answer = answer,
                               !.family = r.family, !.llm_calls = r.llm_calls]
    /\ UNCHANGED notIdx

\* str.strip() on the strings of the model.
Strip(s) == CASE s = " beta " -> "beta" [] s = "  " -> "" [] OTHER -> s

\* float(str(raw).strip()) in hundredths, or the conversion raises.
ToFloat(raw) ==
    CASE raw.t = "num" -> [raised |-> FALSE, value |-> raw.n]
      [] raw.t = "str" /\ raw.s = "1.5" -> [raised |-> FALSE, value |-> 150]
      [] OTHER -> [raised |-> TRUE, value |-> 0]

RECURSIVE CleanStrings(_)
\* [w.strip() for w in values if isinstance(w, str) and w.strip()]
CleanStrings(values) ==
    IF values = <<>> THEN <<>>
    ELSE LET w == Head(values)
         IN IF w.t = "str" /\ Strip(w.s) # ""
            THEN <<Strip(w.s)>> \o CleanStrings(Tail(values))
            ELSE CleanStrings(Tail(values))

\* "Max 15 tags"
MaxTags == 15

\* validate_json_schema(data, INDEXING_SCHEMA_FIELDS)
INDEXING_SCHEMA_FIELDS == <<"summary", "trainedWords", "tags", "recommendedStrength">>
validate_json_schema(data, required_fields) ==
    \A i \in DOMAIN required_fields : data[required_fields[i]].t # "absent"

\* parse_indexing_response(response_text).  The text is "unparsable" (no
\* JSON in it), "empty" (JSON that is falsy: {}, null, 0), "number" (a JSON
\* number other than 0, on which the membership test of
\* validate_json_schema raises TypeError) or an "object".
parse_indexing_response(response) ==
    IF response.kind \in {"unparsable", "empty"} THEN NoParsed
    ELSE IF response.kind = "number" THEN [NoParsed EXCEPT !.raised = TRUE]
    ELSE IF ~validate_json_schema(response, INDEXING_SCHEMA_FIELDS) THEN NoParsed
    ELSE IF response.summary.t # "str" THEN NoParsed
    ELSE IF response.trainedWords.t # "list" THEN NoParsed
    ELSE IF response.tags.t # "list" THEN NoParsed
    ELSE LET converted == ToFloat(response.recommendedStrength)
             recommended_value == IF converted.raised THEN DefaultWeight
                                  ELSE converted.value
             lowered == CleanStrings(response.tags.l)
         IN [ok |-> TRUE, raised |-> FALSE,
             summary |-> Strip(response.summary.s),
             trainedWords |-> CleanStrings(response.trainedWords.l),
             tags |-> FirstN([i \in DOMAIN lowered |-> Lower(lowered[i])], MaxTags),
             recommendedStrength |-> Clamp(recommended_value)]

\* The responses of the model.
ManyTags == [i \in 1..(MaxTags + 1) |-> El("t" \o ToString(i))]
SummaryValues == {JAbsent, JStr("s1"), JNum(100)}
WordsValues == {JAbsent, JStr("alpha"), JList(<<>>), JList(<<El("alpha"), El(" beta ")>>),
                JList(<<El("alpha"), ElNum>>)}
TagsValues == {JAbsent, JList(<<El("Style")>>), JList(<<El("Style"), El("style")>>),
               JList(<<El("style"), ElNum, El("  ")>>), JList(ManyTags)}
StrengthValues == {JAbsent, JNull, JNum(150), JNum(500), JStr("1.5"), JStr("strong")}
Responses ==
    {[NoResponse EXCEPT !.kind = k] : k \in {"unparsable", "empty", "number"}}
    \cup [kind : {"object"}, summary : SummaryValues, trainedWords : WordsValues,
           tags : TagsValues, recommendedStrength : StrengthValues]

ApplyParseIndexingResponse(response) ==
    /\ idx.op = "none"
    /\ idx' = [NoIdx EXCEPT !.op = "parse_indexing_response", !.response = response,
                            !.parsed = parse_indexing_response(response)]
    /\ UNCHANGED notIdx

\* The recommended_strength arguments, in hundredths: none, 0.05, 0.2, 1.0,
\* 2.0 and 5.0.
StrengthInputs == {NoStrength, 5, 20, 100, 200, 500}

\* mark_llm_indexed on the entry index_lora_basic made for a file with
\* bytes c.
ApplyMarkLLMIndexed(c, net, strength) ==
    /\ idx.op = "none"
    /\ LET cch == [x \in IndexContents |-> "none"]
           cat == index_lora_basic(<<>>, cch, 1, c, net).catalog
           h == compute_file_hash(c)
       IN \E order \in WordOrders(cat, h) :
            idx' = [NoIdx EXCEPT !.op = "mark_llm_indexed", !.content = c, !.net = net,
                                 !.before = cat, !.strength = strength,
                                 !.entries = mark_llm_indexed(cat, h, Extracted.summary,
                                                 Extracted.trainedWords, Extracted.tags,
                                                 <<>>, strength, order)]
    /\ UNCHANGED notIdx

NextIndexing ==
    \/ \E response \in Responses : ApplyParseIndexingResponse(response)
    \/ \E c \in IndexContents, net \in NetOutcomes, strength \in StrengthInputs :
          ApplyMarkLLMIndexed(c, net, strength)
    \/ \E p \in PathIds, c \in IndexContents, cached \in CacheStates, net \in NetOutcomes :
          ApplyIndexBasic(p, c, cached, net)
    \/ \E provider \in Providers, heuristic \in BOOLEAN, listed \in BOOLEAN,
          images \in ImageLists, download_ok \in BOOLEAN, answer \in GenerationAnswers :
          ApplyIndexWithLLM(provider, heuristic, listed, images, download_ok, answer)
    \/ \E text \in IndexTexts, known \in KnownLists, answer \in FamilyAnswers :
          ApplySuggestBaseFamily(text, known, answer)

SpecIndexing == Init /\ [][NextIndexing]_vars

-----------------------------------------------------------------------------
(* llm_providers/gemini_provider.py: supports_vision on one instance *)

MaxCalls == 4

\* _heuristic_supports_vision on a lowercased name: the names of
\* GEMINI_VISION_MODELS are vision models, "gemini-pro" is listed as not,
\* a name with "embedding" is not.
heuristic_supports_vision(model_lower) == model_lower = "gemini-1.5-flash"

\* What genai.get_model tells: image input, text only, or the call raises.
LookupAnswers == {"vision", "text", "error"}

FromBool(b) == IF b THEN "true" ELSE "false"

\* supports_vision forgetting a negative answer of the lookup.
supports_vision_forgetful(v, model, looked_up) ==
    LET cache_key == Lower(model)
    IN IF v.cache[cache_key] # "none"
       THEN [cache |-> v.cache, result |-> v.cache[cache_key], lookup |-> FALSE]
       ELSE IF heuristic_supports_vision(cache_key)
       THEN [cache |-> [v.cache EXCEPT ![cache_key] = "true"], result |-> "true",
             lookup |-> FALSE]
       ELSE IF looked_up = "vision"
       THEN [cache |-> [v.cache EXCEPT ![cache_key] = "true"], result |-> "true",
             lookup |-> TRUE]
       ELSE [cache |-> v.cache, result |-> "false", lookup |-> TRUE]

\* supports_vision(model) on the instance v: the cache after the call, the
\* result, and whether genai.get_model was called.
supports_vision_cached(v, model, looked_up) ==
    LET cache_key == Lower(model)
        heuristic_result == heuristic_supports_vision(cache_key)
    IN IF v.cache[cache_key] # "none"
       THEN [cache |-> v.cache, result |-> v.cache[cache_key], lookup |-> FALSE]
       ELSE IF heuristic_result
       THEN [cache |-> [v.cache EXCEPT ![cache_key] = "true"], result |-> "true",
             lookup |-> FALSE]
       ELSE IF looked_up = "vision"
       THEN [cache |-> [v.cache EXCEPT ![cache_key] = "true"], result |-> "true",
             lookup |-> TRUE]
       ELSE [cache |-> [v.cache EXCEPT ![cache_key] = FromBool(heuristic_result)],
             result |-> FromBool(heuristic_result), lookup |-> TRUE]

SupportsVision(model, looked_up) ==
    /\ vis.calls < MaxCalls
    /\ LET r == supports_vision_cached(vis, model, looked_up)
       IN vis' = [cache |-> r.cache,
                  lookups |-> [vis.lookups EXCEPT
                                 ![model] = @ + (IF r.lookup THEN 1 ELSE 0)],
                  first |-> [vis.first EXCEPT
                               ![model] = IF @ = "none" THEN r.result ELSE @],
                  op |-> "supports_vision", model |-> model, result |-> r.result,
                  calls |-> vis.calls + 1]
    /\ UNCHANGED notVis

NextVision ==
    \E model \in VisionModels, looked_up \in LookupAnswers : SupportsVision(model, looked_up)

SpecVision == Init /\ [][NextVision]_vars

-----------------------------------------------------------------------------
(* utils/prompting_llm.py: parse_prompting_response; *)
(* utils/lora_applicator.py: apply_loras_to_model_clip *)

\* An element of selected_loras: an object with a name that is a string, a
\* number or null, an object with no name, or something that is no object.
Lora(name) == [t |-> "object", name |-> name]
NoObject == [t |-> "str", name |-> JAbsent]
LoraElements == {Lora(JStr("x.safetensors")), Lora(JStr("y.safetensors")),
                 Lora(JNum(100)), Lora(JNull), Lora(JAbsent), NoObject}
MaxSelected == 2
LoraLists == UNION {[1..n -> LoraElements] : n \in 0..MaxSelected}

RECURSIVE SelectEach(_)
\* The loop "for lora in data['selected_loras']": the names kept, or the
\* AttributeError of .strip() on a name that is no string.
SelectEach(loras) ==
    IF loras = <<>> THEN [raised |-> FALSE, names |-> <<>>]
    ELSE LET lora == Head(loras)
             rest == SelectEach(Tail(loras))
         IN IF lora.t # "object" THEN rest
            ELSE IF lora.name.t = "absent" THEN rest
            ELSE IF lora.name.t # "str" THEN [raised |-> TRUE, names |-> <<>>]
            ELSE IF rest.raised THEN rest
            ELSE [raised |-> FALSE, names |-> <<Strip(lora.name.s)>> \o rest.names]

PROMPTING_SCHEMA_FIELDS == <<"prompt", "selected_loras">>
NoPrompting == [ok |-> FALSE, raised |-> FALSE, names |-> <<>>]

\* parse_prompting_response(response_text): None, the result with the names
\* of its selected_loras, or an exception.
parse_prompting_response(response) ==
    IF response.kind \in {"unparsable", "empty"} THEN NoPrompting
    ELSE IF response.kind = "number" THEN [NoPrompting EXCEPT !.raised = TRUE]
    ELSE IF ~validate_json_schema(response, PROMPTING_SCHEMA_FIELDS) THEN NoPrompting
    ELSE IF response.prompt.t # "str" THEN NoPrompting
    ELSE IF response.selected_loras.t # "list" THEN NoPrompting
    ELSE LET each == SelectEach(response.selected_loras.l)
         IN [ok |-> ~each.raised, raised |-> each.raised, names |-> each.names]

Selections ==
    {[NoSelection EXCEPT !.kind = k] : k \in {"unparsable", "empty", "number"}}
    \cup [kind : {"object"}, prompt : {JAbsent, JStr("a cat"), JNum(100)},
           selected_loras : {JAbsent, JStr("x.safetensors")} \cup {JList(l) : l \in LoraLists}]

ApplyParsePromptingResponse(response) ==
    /\ run.op = "none"
    /\ LET r == parse_prompting_response(response)
       IN run' = [NoRun EXCEPT !.op = "parse_prompting_response", !.response = response,
                               !.ok = r.ok, !.raised = r.raised, !.names = r.names]
    /\ UNCHANGED notRun

\* The entries handed to the applicator (ComfyUI present): a file, its
\* default weight, and the optional keys manual_strength and
\* manual_strength_clip (<<>>: key absent).
ApplyNames == {"x.safetensors", "y.safetensors", "z.safetensors"}
ApplyEntries == [file : ApplyNames, default_weight : {100},
                 manual_strength : {<<>>, <<300>>}, manual_strength_clip : {<<>>, <<50>>}]
MaxApply == 3
ApplyLists == UNION {[1..n -> ApplyEntries] : n \in 0..MaxApply}
MinApplied == -200
MaxApplied == 200

\* max(-2.0, min(2.0, weight))
ClampApplied(w) == IF w < MinApplied THEN MinApplied ELSE IF w > MaxApplied THEN MaxApplied ELSE w

\* lora_entry.get('manual_strength', lora_entry.get('default_weight', 1.0)), clamped
WeightModel(e) ==
    ClampApplied(IF e.manual_strength # <<>> THEN e.manual_strength[1] ELSE e.default_weight)

\* lora_entry.get('manual_strength_clip', weight_model), clamped
WeightClip(e) ==
    ClampApplied(IF e.manual_strength_clip # <<>> THEN e.manual_strength_clip[1]
                 ELSE IF e.manual_strength # <<>> THEN e.manual_strength[1]
                 ELSE e.default_weight)

\* What load_lora returns: the model and the clip with the adapter patched in.
load_lora(model, clip, e) ==
    [model |-> Append(model, [lora_name |-> e.file, strength |-> WeightModel(e)]),
     clip |-> Append(clip, [lora_name |-> e.file, strength |-> WeightClip(e)])]

RECURSIVE apply_loras_aborting(_, _, _, _)
\* apply_loras_to_model_clip letting the exception of load_lora end the run.
apply_loras_aborting(model, clip, loras, failing) ==
    IF loras = <<>> THEN [model |-> model, clip |-> clip, attempts |-> <<>>]
    ELSE LET e == Head(loras)
             attempt == [lora_name |-> e.file, model |-> model, clip |-> clip]
             result == load_lora(model, clip, e)
         IN IF e.file \in failing
            THEN [model |-> model, clip |-> clip, attempts |-> <<attempt>>]
            ELSE LET rest == apply_loras_aborting(result.model, result.clip, Tail(loras), failing)
                 IN [rest EXCEPT !.attempts = <<attempt>> \o rest.attempts]

RECURSIVE apply_loras_to_model_clip(_, _, _, _)
\* apply_loras_to_model_clip(model, clip, loras_to_apply).  A model or a clip
\* is the list of the adapters patched into it; load_lora raises for the
\* files in failing.  attempts lists the calls of load_lora with the model
\* and clip each was given.
apply_loras_to_model_clip(model, clip, loras, failing) ==
    IF loras = <<>> THEN [model |-> model, clip |-> clip, attempts |-> <<>>]
    ELSE LET e == Head(loras)
             attempt == [lora_name |-> e.file, model |-> model, clip |-> clip]
             raised == e.file \in failing
             result == load_lora(model, clip, e)
             current_model == IF raised THEN model ELSE result.model
             current_clip == IF raised THEN clip ELSE result.clip
             rest == apply_loras_to_model_clip(current_model, current_clip, Tail(loras), failing)
         IN [rest EXCEPT !.attempts = <<attempt>> \o rest.attempts]

ApplyLoras(loras, failing) ==
    /\ run.op = "none"
    /\ LET r == apply_loras_to_model_clip(<<>>, <<>>, loras, failing)
       IN run' = [NoRun EXCEPT !.op = "apply_loras_to_model_clip", !.loras = loras,
                               !.failing = failing, !.attempts = r.attempts,
                               !.model = r.model, !.clip = r.clip]
    /\ UNCHANGED notRun

NextPrompting ==
    \/ \E response \in Selections : ApplyParsePromptingResponse(response)
    \/ \E loras \in ApplyLists, failing \in SUBSET ApplyNames : ApplyLoras(loras, failing)

SpecPrompting == Init /\ [][NextPrompting]_vars

-----------------------------------------------------------------------------
(* The properties *)

Entries(doc) == {doc[i] : i \in DOMAIN doc}
CountKey(doc, k) == Cardinality({i \in DOMAIN doc : doc[i].key = k})

\* C1: index_lora_basic on a file leaves exactly one entry under the file's
\* content identifier; it adds nothing to the trained_words of an entry that
\* was there, and the list of an entry it creates holds no word twice; a
\* second call on the same unchanged file changes nothing in the catalog and
\* returns the same identifier.
C1_IndexBasicIdempotent ==
    [][ last'.op = "index_lora_basic" =>
          LET h == last'.key IN
          /\ h = compute_file_hash(disk[last'.path])
          /\ CountKey(catalog', h) = 1
          /\ h \in Keys(catalog) =>
                Get(catalog', h).trained_words = Get(catalog, h).trained_words
          /\ h \notin Keys(catalog) => NoDup(Get(catalog', h).trained_words)
          /\ last'.again => catalog' = catalog /\ last'.key = last.key
      ]_vars

\* index_lora_basic has run twice in a row on the same unchanged file, and
\* its entry is the only one.
C1_Witness ==
    /\ last.op = "index_lora_basic" /\ last.again
    /\ Len(catalog) = 1 /\ catalog[1].key = last.key
    /\ catalog[1].trained_words # <<>>

\* C2: no document and no in-memory catalog holds two entries under one key,
\* and every entry is keyed by the content identifier of a file content.
C2_OneEntryPerContent ==
    \A doc \in {catalog, stored} : \A e \in Entries(doc) :
        /\ CountKey(doc, e.key) = 1
        /\ e.key \in {compute_file_hash(c) : c \in DOMAIN HexDigests}

\* C3: detect_new_loras keeps every entry, sets available to "the entry's
\* identifier is among the hashes on disk" and changes no other field: an
\* entry whose file is gone gets available = FALSE, a restored one TRUE, with
\* its enrichment as before.
C3_AvailabilityRoundTrip ==
    [][ last'.op = "detect_new_loras" =>
          /\ Len(catalog') = Len(catalog)
          /\ \A i \in DOMAIN catalog :
                /\ catalog'[i] = [catalog[i] EXCEPT !.available = catalog'[i].available]
                /\ catalog'[i].available =
                      (\E p \in PathIds : disk[p] # 0 /\ compute_file_hash(disk[p]) = catalog[i].key)
      ]_vars

\* detect_new_loras has just set an enriched entry, unavailable before, back
\* to available.
C3_Witness ==
    /\ last.op = "detect_new_loras"
    /\ \E e \in Entries(catalog) :
          e.key \in last.keys /\ e.available /\ e.indexed_by_llm /\ e.summary # ""

\* C4: every entry's default_weight lies in [0.2, 2.0], in memory and in the
\* document.
C4_WeightInRange ==
    \A doc \in {catalog, stored} : \A e \in Entries(doc) :
        MinWeight <= e.default_weight /\ e.default_weight <= MaxWeight

\* C5: after any calls of index_lora_basic and mark_llm_indexed, no entry's
\* trained_words holds the same word twice.
C5_NoDuplicateWords ==
    \A e \in Entries(catalog) : NoDup(e.trained_words)

\* C6: mark_llm_indexed keeps the stored words at the head of the list, in
\* the order they had, and what follows them are words that were not stored.
C6_MergeKeepsOrder ==
    [][ (last'.op = "mark_llm_indexed" /\ last'.key \in Keys(catalog)) =>
          LET old == Unique(Get(catalog, last'.key).trained_words)
              new == Get(catalog', last'.key).trained_words
          IN /\ Len(new) >= Len(old)
             /\ SubSeq(new, 1, Len(old)) = old
             /\ \A i \in (Len(old) + 1)..Len(new) : new[i] \notin Range(old)
      ]_vars

\* C7: every entry with indexed_by_llm has indexing_attempted, in memory and
\* in the document.
C7_IndexedImpliesAttempted ==
    \A doc \in {catalog, stored} : \A e \in Entries(doc) :
        e.indexed_by_llm => e.indexing_attempted

\* A batch index of the server has enriched an entry and saved it.
C7_Witness ==
    /\ last.op = "pass_end" /\ last.by = "server"
    /\ \E e \in Entries(stored) : e.indexed_by_llm /\ e.indexing_attempted

\* C8: when a pass ends, the entry of every new file for which the registry
\* lookup gave nothing is available, not indexed by the LLM, marked
\* indexing_attempted, and has no tags.
C8_NoRegistryMatchAttempted ==
    last.op = "pass_end" =>
        \A h \in last.keys :
            /\ h \in Keys(catalog)
            /\ LET e == Get(catalog, h)
               IN e.available /\ ~e.indexed_by_llm /\ e.indexing_attempted /\ e.tags = <<>>

\* C9: a turn of a pass in which the registry lookup failed transiently
\* leaves the entry without the indexing_attempted mark.
C9_TransientNotRecorded ==
    (last.op = "step" /\ last.net = "transient") =>
        (last.key \in Keys(catalog) => ~Get(catalog, last.key).indexing_attempted)

\* C10: a turn of the server's batch index submits to the LLM extraction
\* only an entry that is enabled and not marked indexing_attempted.
C10_AttemptedNotResubmitted ==
    (last.op = "step" /\ last.by = "server" /\ last.llm) =>
        (~last.sub_attempted /\ last.sub_enabled)

\* C11: a turn of a pass whose LLM extraction failed leaves the summary,
\* trained_words, tags, default_weight and indexed_by_llm of the entry as
\* they were, and leaves the file among those the next pass of the same
\* handler processes (the server: among the unindexed files; the manager and
\* the loader: among the files detect_new_loras returns).
C11_FailedExtractionRetried ==
    [][ (last'.op = "step" /\ last'.llm /\ ~last'.ok) =>
          LET h == last'.key
              p == last'.path
          IN /\ h \in Keys(catalog) =>
                   /\ h \in Keys(catalog')
                   /\ LET old == Get(catalog, h)
                          new == Get(catalog', h)
                      IN /\ new.summary = old.summary
                         /\ new.trained_words = old.trained_words
                         /\ new.tags = old.tags
                         /\ new.default_weight = old.default_weight
                         /\ new.indexed_by_llm = old.indexed_by_llm
             /\ last'.by = "server" => IsUnindexed(catalog', p)
             /\ last'.by \in {"manager", "loader"} =>
                   \E i \in DOMAIN detect_new_files(catalog', disk') :
                      detect_new_files(catalog', disk')[i] = p
      ]_vars

\* The field of an entry a request of the update endpoint sets.
EditedField(e, edit) ==
    IF edit = "disable" THEN <<"enabled", e.enabled>>
    ELSE <<"default_weight", e.default_weight>>

\* C12: when the update endpoint has persisted an edit while a pass holds
\* the catalog in memory, the next write of the pass to the document keeps
\* the edited entry and the value the edit gave its field.
C12_ManualEditKept ==
    [][ (/\ last.op = "update_lora_info"
         /\ pass.kind # "none"
         /\ last'.op \in {"step", "pass_end"}
         /\ stored' # stored) =>
          /\ last.key \in Keys(stored')
          /\ EditedField(Get(stored', last.key), last.edit) =
                EditedField(Get(stored, last.key), last.edit)
      ]_vars


\* C13: a load made while a save is in progress returns the catalog as it was
\* before the save or the catalog the save writes.
C13_LoadSeesWholeDocument ==
    [][ (io'.op = "load" /\ io.open) => io'.loaded \in {io.before, io.after} ]_vars

\* C14: a resolution of the names an LLM selected returns, without raising,
\* one entry of the pool for each name that names one, in the order of the
\* names, and nothing else.
C14_ResolveExact ==
    sel.op = "resolve_selected_loras_from_llm" =>
        LET matched == Filter(sel.names, {e.file : e \in Range(sel.cands)})
        IN /\ ~sel.raised
           /\ Len(sel.result) = Len(matched)
           /\ \A i \in DOMAIN sel.result :
                 /\ sel.result[i] \in Range(sel.cands)
                 /\ sel.result[i].file = matched[i]

\* C15: the candidates hold no entry that the update endpoint (enabled) or
\* the manager node (disabled) has switched off.
C15_NoDisabledCandidate ==
    sel.op = "get_candidates_for_autoselect" =>
        \A e \in Range(sel.result) : e.enabled /\ ~e.disabled

\* C16: the candidates hold no entry whose file is gone (available false).
C16_NoUnavailableCandidate ==
    sel.op = "get_candidates_for_autoselect" =>
        \A e \in Range(sel.result) : e.available

\* The lineage a family is a versioned part of, as the specification names
\* them ("SD1.x", "SDXL").
Lineage(family) ==
    CASE family \in {"SD 1.4", "SD 1.5"} -> "SD1.x"
      [] family = "SDXL 1.0" -> "SDXL"
      [] OTHER -> family

\* C17: the filter keeps exactly the entries whose base_compat holds the
\* target family or a family of the target's lineage, in their order; an
\* entry with no family is not kept.
C17_FamilyFilter ==
    sel.op = "filter_by_base_model" =>
        sel.result = Filter(sel.pool,
            {e \in Range(sel.pool) :
                \E i \in DOMAIN e.base_compat :
                   \/ e.base_compat[i] = sel.target
                   \/ Lineage(e.base_compat[i]) = Lineage(sel.target)})

\* The Jaccard overlap of the lowercased words of the free text and of the
\* entry's display name, summary, trigger words and tags, as <<shared, all>>.
Jaccard(context, e) ==
    LET a == {Lower(w) : w \in Range(context)}
        b == {Lower(w) : w \in Range(e.display_name) \cup Range(e.summary)
                               \cup UNION {Range(ph) : ph \in Range(e.trained_words)}
                               \cup UNION {Range(ph) : ph \in Range(e.tags)}}
    IN <<Cardinality(a \cap b), IF a \cup b = {} THEN 1 ELSE Cardinality(a \cup b)>>

Position(s, x) == CHOOSE i \in DOMAIN s : s[i] = x

\* C18: the ranking is a permutation of its input in which no entry comes
\* before one of a greater overlap, and entries of equal overlap keep the
\* order they had in the input.
C18_RankStable ==
    sel.op = "rank_candidates_by_relevance" =>
        /\ Len(sel.result) = Len(sel.pool)
        /\ Range(sel.result) = Range(sel.pool)
        /\ \A i, j \in DOMAIN sel.result :
              i < j => Jaccard(sel.context, sel.result[i])[1] * Jaccard(sel.context, sel.result[j])[2]
                       >= Jaccard(sel.context, sel.result[j])[1] * Jaccard(sel.context, sel.result[i])[2]
        /\ \A i, j \in DOMAIN sel.pool :
              (/\ i < j
               /\ Jaccard(sel.context, sel.pool[i])[1] * Jaccard(sel.context, sel.pool[j])[2]
                  = Jaccard(sel.context, sel.pool[j])[1] * Jaccard(sel.context, sel.pool[i])[2])
              => Position(sel.result, sel.pool[i]) < Position(sel.result, sel.pool[j])

\* Three entries ranked, two of them of one overlap and behind the third,
\* which stood last.
C18_Witness ==
    /\ sel.op = "rank_candidates_by_relevance"
    /\ Len(sel.pool) = 3
    /\ sel.result = <<sel.pool[3], sel.pool[1], sel.pool[2]>>
    /\ Jaccard(sel.context, sel.pool[1]) = Jaccard(sel.context, sel.pool[2])
    /\ Jaccard(sel.context, sel.pool[1])[1] > 0

\* C19: the merge is the manual entries followed by the auto entries, each
\* in their order, without those whose file an earlier one carries; no two
\* entries of it share a file, and a file in both lists is there once, with
\* the manual entry.
C19_MergeFirstOccurrence ==
    sel.op = "merge_manual_and_auto_loras" =>
        LET all == sel.manual \o sel.auto
            keep == {i \in DOMAIN all : \A j \in 1..(i - 1) : all[j].file # all[i].file}
            nth(k) == CHOOSE i \in keep : Cardinality({j \in keep : j <= i}) = k
        IN /\ Len(sel.result) = Cardinality(keep)
           /\ \A k \in DOMAIN sel.result : sel.result[k] = all[nth(k)]
           /\ \A i, j \in DOMAIN sel.result :
                 sel.result[i].file = sel.result[j].file => i = j
           /\ \A m \in Range(sel.manual) :
                 \E k \in DOMAIN sel.result :
                    /\ sel.result[k].file = m.file
                    /\ sel.result[k] \in Range(sel.manual)

\* A merge in which the first auto entry carries the file of the manual entry
\* under another identity, and the second auto entry is kept.
C19_Witness ==
    /\ sel.op = "merge_manual_and_auto_loras"
    /\ Len(sel.manual) = 1
    /\ Len(sel.auto) = 2
    /\ sel.manual[1].file = sel.auto[1].file
    /\ sel.manual[1] # sel.auto[1]
    /\ sel.result = <<sel.manual[1], sel.auto[2]>>

\* C20: when the first attempt of a call is answered with the rate-limit
\* signal and the second with success, the second attempt ends the call: it
\* returns (true, text, "") and this is the only return of the call, two
\* requests were sent and the call slept once, for the backoff.
C20_RateLimitThenSuccess ==
    [][ (/\ call.active
         /\ call.answers = <<"rate_limit">>
         /\ call'.answers = <<"rate_limit", "success">>) =>
            /\ call'.op = "return"
            /\ ~call'.active
            /\ call'.result = [success |-> TRUE, text |-> "text", error |-> ""]
            /\ call'.returned = 1
            /\ call'.requests = 2
            /\ Len(call'.sleeps) = 1
      ]_vars

\* A call of the default budget that returned its text on the second
\* attempt, the first having been rate limited.
C20_Witness ==
    /\ call.op = "return"
    /\ call.max_retries = DefaultMaxRetries
    /\ call.answers = <<"rate_limit", "success">>
    /\ call.result.success

\* C21: a call never sends more requests than its attempt budget and has
\* returned once the budget is used; the wait after a rate-limited attempt
\* number k (from 0) is 2^k seconds; a call whose attempts were all rate
\* limited returns failure.
C21_BoundedAttempts ==
    [][ (call.active /\ call'.requests = call.requests + 1) =>
          LET k == call.attempt
              answer == call'.answers[Len(call'.answers)]
          IN /\ call'.requests <= call'.max_retries
             /\ call'.requests = call'.max_retries =>
                   (call'.op = "return" /\ ~call'.active)
             /\ answer = "rate_limit" => call'.sleeps = Append(call.sleeps, 2^k)
             /\ (/\ ~call'.active
                 /\ \A i \in DOMAIN call'.answers : call'.answers[i] = "rate_limit")
                => (~call'.result.success /\ call'.result.text = "")
      ]_vars

\* A call of three attempts, all rate limited, that has returned after
\* waits of 1, 2 and 4 seconds.
C21_Witness ==
    /\ call.op = "return"
    /\ call.max_retries = 3
    /\ call.answers = <<"rate_limit", "rate_limit", "rate_limit">>
    /\ call.sleeps = <<1, 2, 4>>
    /\ ~call.result.success

\* C22: an attempt that the provider rejects for content safety ends the
\* call at once: it returns failure with the error of the safety filters, and
\* neither waits nor sends another request, whatever else the message of the
\* rejection holds.
C22_SafetyRejectionFinal ==
    [][ (/\ call.active
         /\ call.max_retries >= DefaultMaxRetries
         /\ call'.requests = call.requests + 1
         /\ call'.answers[Len(call'.answers)] \in {"blocked", "blocked_quota"}) =>
            /\ call'.op = "return"
            /\ ~call'.active
            /\ ~call'.result.success
            /\ call'.result.error = "Content blocked by safety filters"
            /\ call'.sleeps = call.sleeps
      ]_vars

Transient == {"exception", "http_error"}

\* C23: an attempt that meets a transient error (a request exception or an
\* error status, neither rate limit nor content rejection) is retried once
\* after the fixed delay, whatever the earlier attempts of the call were;
\* only when the retry meets a transient error too does the call return
\* failure.
C23_TransientRetriedOnce ==
    [][ (/\ call.active
         /\ call.max_retries >= DefaultMaxRetries
         /\ call'.requests = call.requests + 1
         /\ call'.answers[Len(call'.answers)] \in Transient) =>
            IF call.answers # << >> /\ call.answers[Len(call.answers)] \in Transient
            THEN call'.op = "return" /\ ~call'.result.success
            ELSE /\ call'.op = "retry"
                 /\ call'.active
                 /\ call'.sleeps = Append(call.sleeps, ErrorDelay)
      ]_vars

\* C24: a lookup for an identifier whose digest an earlier lookup got a 404
\* for, given with the prefix or without, returns from the cache and sends no
\* request.
C24_NotFoundNotAskedAgain ==
    [][ (/\ ~reg.active
         /\ reg'.op \in {"begin", "cached"}
         /\ \E i \in reg.got404 : StripPrefix(i) = StripPrefix(reg'.id)) =>
            /\ reg'.op = "cached"
            /\ ~reg'.active
            /\ reg'.requests = 0
            /\ reg'.result = "not_found"
      ]_vars

\* A lookup by the bare digest answered from the cache, the 404 having been
\* received by a lookup with the prefix.
C24_Witness ==
    /\ reg.op = "cached"
    /\ reg.id = HexDigests[1]
    /\ reg.got404 = {"sha256:" \o HexDigests[1]}
    /\ reg.requests = 0

\* C25: the wait after the by-hash attempt number k (from 0) that is
\* answered 429 is base * 2^k; a lookup whose by-hash attempts are all
\* answered 429 ends after the retry budget with failure and the cache as
\* it was; and a lookup for an identifier with no cache file asks the
\* registry.
C25_RateLimitedLookup ==
    [][ /\ (/\ reg.active
            /\ reg.stage = "by_hash"
            /\ reg'.requests = reg.requests + 1
            /\ reg'.answers[Len(reg'.answers)] = "429") =>
               /\ reg'.sleeps = Append(reg.sleeps, RetryDelay * 2^(reg.attempt))
               /\ reg'.requests <= RegistryMaxRetries
               /\ reg'.cache = reg.cache
               /\ reg'.active <=> reg'.requests < RegistryMaxRetries
               /\ ~reg'.active => (reg'.op = "return" /\ reg'.result = "null")
        /\ (/\ ~reg.active
            /\ reg'.op \in {"begin", "cached"}
            /\ reg.cache[StripPrefix(reg'.id)] = "none") =>
               (reg'.op = "begin" /\ reg'.active /\ reg'.stage = "by_hash")
      ]_vars

\* A lookup that asks the registry again after a lookup for the same
\* identifier was answered 429 three times: the state at the end of the
\* first, with its three waits.
C25_Witness ==
    /\ reg.op = "return"
    /\ reg.answers = <<"429", "429", "429">>
    /\ reg.sleeps = <<2, 4, 8>>
    /\ reg.result = "null"
    /\ reg.cache[StripPrefix(reg.id)] = "none"

C29_EmbeddedFamilyFirst ==
    [][ (last'.op = "index_lora_basic" /\ last'.key \notin Keys(catalog)) =>
          LET c == disk[last'.path]
              new == Get(catalog', last'.key)
              embedded == normalize_to_model(parse_safetensors_file(c).base_model)
              registry == IF new.civitai_text # ""
                          THEN normalize_to_model(extract_civitai_metadata(c).base_model)
                          ELSE "Other"
          IN new.base_compat = IF embedded # "Other" THEN <<embedded>> ELSE <<registry>>
      ]_vars

\* C30: for a new file with registry trigger words R and embedded trigger
\* words E, index_lora_basic stores R in order followed by the elements of E
\* that are not in R, in order, each word once; a file the registry gave no
\* payload for has R empty.
C30_RegistryWordsFirst ==
    idx.op = "index_lora_basic" =>
        LET c == idx.content
            answered == \/ idx.cached = "data"
                        \/ idx.cached = "none" /\ idx.net = "answer"
            R == IF answered THEN extract_civitai_metadata(c).trained_words ELSE <<>>
            E == parse_safetensors_file(c).trained_words
            words == idx.entries[1].trained_words
        IN /\ Len(idx.entries) = 1
           /\ words = Unique(R) \o NotIn(E, Range(R))
           /\ NoDup(words)

\* The file with R = [alpha, beta] and E = [beta, gamma] has been indexed
\* with the registry's payload.
C30_Witness ==
    /\ idx.op = "index_lora_basic"
    /\ idx.requests = <<"by_hash">>
    /\ extract_civitai_metadata(idx.content).trained_words = <<"alpha", "beta">>
    /\ parse_safetensors_file(idx.content).trained_words = <<"beta", "gamma">>
    /\ idx.entries[1].trained_words = <<"alpha", "beta", "gamma">>

\* C26: when the entry has gallery images and the selected model does not
\* support vision, index_with_llm returns failure and has made no network
\* request: no image download, no lookup of the model's record, no
\* generation call with or without images.
C26_NoVisionFailsBeforeNetwork ==
    (/\ idx.op = "index_with_llm"
     /\ idx.images # <<>>
     /\ ~idx.heuristic
     /\ ~idx.listed) =>
        (~idx.success /\ idx.requests = <<>>)

\* C27: suggest_base_family_with_llm makes no LLM call when a family keyword
\* is found in the registry text; when none is found and known_families is
\* not empty it makes exactly one call and returns the answer if it is one
\* of the known families, "Unknown" otherwise.
C27_KeywordThenOneCall ==
    idx.op = "suggest_base_family_with_llm" =>
        IF \E i \in DOMAIN BaseModelNames :
               Keywords(BaseModelNames[i]) \cap Mentions(idx.text) # {}
        THEN idx.llm_calls = 0
        ELSE idx.known # <<>> =>
               /\ idx.llm_calls = 1
               /\ idx.family = IF idx.answer \in Range(idx.known)
                               THEN idx.answer ELSE "Unknown"

C31_InvalidResponseRejected ==
    idx.op = "parse_indexing_response" =>
        LET r == idx.response
            strings(v) == v.t = "list" /\ \A i \in DOMAIN v.l : v.l[i].t = "str"
            valid == /\ r.kind = "object"
                     /\ r.summary.t = "str"
                     /\ strings(r.trainedWords)
                     /\ strings(r.tags)
                     /\ r.recommendedStrength.t = "num"
        IN /\ ~idx.parsed.raised
           /\ ~valid => ~idx.parsed.ok

\* C32: the tags of a result parse_indexing_response returns are lowercase,
\* hold no tag twice and are at most 15.
C32_TagsNormalized ==
    (idx.op = "parse_indexing_response" /\ idx.parsed.ok) =>
        LET tags == idx.parsed.tags
        IN /\ \A i \in DOMAIN tags : Lower(tags[i]) = tags[i]
           /\ NoDup(tags)
           /\ Len(tags) <= MaxTags

\* C35: on one provider instance supports_vision issues at most one
\* metadata lookup for a model name, and every call for a model name returns
\* what the first call for that name returned.
C35_VisionAnswerCached ==
    /\ \A m \in VisionModels : vis.lookups[m] <= 1
    /\ vis.op = "supports_vision" => vis.result = vis.first[vis.model]

\* A model the lookup did not show to be a vision model has been asked about
\* twice or more: one lookup was made and the answer was the same.
C35_Witness ==
    /\ vis.op = "supports_vision"
    /\ vis.model = "gemini-pro"
    /\ vis.calls >= 2
    /\ vis.lookups["gemini-pro"] = 1
    /\ vis.lookups["Gemini-Pro"] = 0
    /\ vis.first["Gemini-Pro"] = "none"
    /\ vis.result = "false"

\* C33: parse_prompting_response does not fail a response because of one
\* malformed element of selected_loras: an element that is no object, has no
\* name, or has a name that is no string is dropped, and the names of the
\* well-formed elements are returned in order.
C33_MalformedSelectionDropped ==
    (/\ run.op = "parse_prompting_response"
     /\ run.response.kind = "object"
     /\ run.response.prompt.t = "str"
     /\ run.response.selected_loras.t = "list") =>
        LET l == run.response.selected_loras.l
            good == {i \in DOMAIN l : l[i].t = "object" /\ l[i].name.t = "str"}
        IN /\ run.ok /\ ~run.raised
           /\ Len(run.names) = Cardinality(good)
           /\ \A i \in DOMAIN run.names :
                 \E j \in good : /\ run.names[i] = Strip(l[j].name.s)
                                 /\ Cardinality({k \in good : k < j}) = i - 1

\* C37: apply_loras_to_model_clip attempts every adapter of the list, in
\* order, also after a failure, each on the model and the clip the last
\* successful application produced (those holding exactly the earlier
\* adapters that did not fail); what it returns holds the adapters that did
\* not fail.
C37_ApplyContinuesAfterFailure ==
    run.op = "apply_loras_to_model_clip" =>
        LET Applied(n) == SelectSeq(SubSeq(run.loras, 1, n), LAMBDA e : e.file \notin run.failing)
            Files(s) == [k \in DOMAIN s |-> s[k].file]
            Patched(s) == [k \in DOMAIN s |-> s[k].lora_name]
        IN /\ Len(run.attempts) = Len(run.loras)
           /\ \A i \in DOMAIN run.attempts :
                 /\ run.attempts[i].lora_name = run.loras[i].file
                 /\ Patched(run.attempts[i].model) = Files(Applied(i - 1))
                 /\ Patched(run.attempts[i].clip) = Files(Applied(i - 1))
           /\ Patched(run.model) = Files(Applied(Len(run.loras)))
           /\ Patched(run.clip) = Files(Applied(Len(run.loras)))

\* Three adapters, the second failing: the third was attempted on the model
\* the first produced, and the result holds the first and the third.
C37_Witness ==
    /\ run.op = "apply_loras_to_model_clip"
    /\ Len(run.loras) = 3
    /\ run.failing = {run.loras[2].file}
    /\ run.loras[1].file # run.loras[2].file
    /\ run.loras[3].file # run.loras[2].file
    /\ Len(run.attempts) = 3
    /\ Len(run.attempts[3].model) = 1
    /\ Len(run.model) = 2
    /\ run.model[2].lora_name = run.loras[3].file

\* C34: a read error on one file of a pass is caught: the step that meets
\* the unreadable file records no entry, drops only that file from the work
\* list and leaves the pass running on the remaining files.
C34_ReadErrorSkipsFile ==
    [][(/\ pass.kind # "none" /\ pass.todo # <<>>
        /\ disk[Head(pass.todo)] = 0
        /\ pass' # pass) =>
           (/\ catalog' = catalog
            /\ pass'.kind = pass.kind
            /\ pass'.todo = Tail(pass.todo))]_vars

\* C38: a turn of the HTTP batch pass keeps what the pass has in memory:
\* every other entry of the in-memory catalog is still there, unchanged,
\* after the turn, and after a successful extraction the entry of the file
\* is in the catalog the pass will save, marked as indexed by the LLM and
\* holding the extracted summary and tags.
C38_BatchExtractionPersisted ==
    [][(/\ pass.kind = "server" /\ pass.todo # <<>>
        /\ pass'.todo = Tail(pass.todo)
        /\ last'.op = "step" /\ last'.by = "server") =>
           (/\ \A k \in Keys(catalog) \ {last'.key} :
                  k \in Keys(catalog') /\ Get(catalog', k) = Get(catalog, k)
            /\ last'.ok =>
                  /\ last'.key \in Keys(catalog')
                  /\ Get(catalog', last'.key).indexed_by_llm
                  /\ Get(catalog', last'.key).summary = Extracted.summary
                  /\ Get(catalog', last'.key).tags = Extracted.tags)]_vars

\* C39: the availability detect_new_loras computes reaches the document:
\* when a scan of the manager or of the loader starts while the file of a
\* catalog entry is missing from disk, the catalog the scan goes on with has
\* that entry unavailable, and a scan that ends there, having found no new
\* file, leaves the entry unavailable in the document.
C39_AvailabilityPersisted ==
    [][(/\ pass.kind = "none"
        /\ last'.by \in {"manager", "loader"}
        /\ last'.op \in {"pass_begin", "pass_end"}) =>
           LET missing == Keys(catalog) \ current_hashes(disk)
           IN /\ \A i \in DOMAIN catalog' :
                    catalog'[i].key \in missing => ~catalog'[i].available
              /\ last'.op = "pass_end" =>
                    \A i \in DOMAIN stored' :
                      stored'[i].key \in missing => ~stored'[i].available]_vars

\* C40: when the parse of the catalog file failed at a load, the save the
\* loading thread makes next does not replace the file with a catalog that
\* lacks an entry the file was holding.
C40_FailedLoadLosesNothing ==
    [][(io'.op = "resave" /\ io.failed) =>
           {io.held[i].key : i \in DOMAIN io.held}
               \subseteq {io'.after[i].key : i \in DOMAIN io'.after}]_vars

====
